---- MODULE Spec2Model ----
(***************************************************************************)
(* A model of the aleph-rs message content-addressing and decoding core:   *)
(* identifier recognition (item_hash.rs, cid.rs) and the message envelope  *)
(* decode / verify / serialize engine (message/base_message.rs), together  *)
(* with the websocket reader loop (aleph-sdk ws.rs), the status projection *)
(* (client.rs), the memory-size conversions (memory_size.rs) and the       *)
(* timestamp conversion (timestamp.rs).                                    *)
(*                                                                         *)
(* A Rust string is modelled as the sequence of its UTF-8 bytes.  An ASCII *)
(* byte is written as the one-character string of its character; the two  *)
(* bytes of a two-byte character are the tokens "LEAD" and "CONT".         *)
(* str::len() is the length of the byte sequence, and a byte offset is a   *)
(* char boundary unless the byte that starts there is a "CONT" byte.       *)
(***************************************************************************)
EXTENDS Integers, Sequences, FiniteSets, TLC

VARIABLES
    input,      \* function specs: the argument (a string, a status, a size)
    op,         \* function specs: the call last applied ("none" before)
    out,        \* function specs: what that call produced
    payload,    \* message spec: the JSON payload received
    pc,         \* message spec: what has been done with it
    decoded,    \* message spec: the result of Message::deserialize
    decodedSource, \* message spec: the result of ContentSource::deserialize
    verdict,    \* message spec: the result of verify_item_hash
    stdout,     \* message spec: the lines written to standard output
    wire,       \* message spec: the result of Message::serialize
    wsPc,       \* websocket spec: where run_ws_loop stands
    backoff_ms, \* websocket spec: the local backoff_ms of run_ws_loop
    rx,         \* websocket spec: the receiver held by the consumer
    queue,      \* websocket spec: the items in the mpsc channel
    pending,    \* websocket spec: the item tx.send is delivering, and for whom
    waited,     \* websocket spec: the duration of the last sleep
    attempts,   \* websocket spec: sleeps since the last text frame (or the start)
    failures,   \* websocket spec: failed connects since the last text frame
    framesRead, \* websocket spec: the serial number of the next text frame
    itemsReceived \* websocket spec: the serial number of the next text item to receive

identVars == <<input, op, out>>
messageVars == <<payload, pc, decoded, decodedSource, verdict, stdout, wire>>
wsVars ==
    <<wsPc, backoff_ms, rx, queue, pending, waited, attempts, failures,
      framesRead, itemsReceived>>
vars == <<identVars, messageVars, wsVars>>

(***************************************************************************)
(* Bounds of the model and program constants.                              *)
(***************************************************************************)
MaxHead == 2
MaxTail == 1
MaxConfirmations == 1

HASH_LENGTH == 32
V0_LENGTH == 46

(***************************************************************************)
(* Strings.                                                                *)
(***************************************************************************)
Lead == "LEAD"
Cont == "CONT"

\* The characters the generated identifier strings are made of: each is the
\* byte sequence of one character.
HeadChars ==
    { <<"0">>, <<"b">>, <<"B">>, <<"z">>, <<"Q">>, <<"m">>, <<"+">>, <<Lead, Cont>> }
FillChars == { "0", "z" }
TailChars == { <<"0">>, <<Lead, Cont>> }

RECURSIVE CharSeqs(_, _)
CharSeqs(chars, n) ==
    IF n = 0 THEN { <<>> }
    ELSE LET shorter == CharSeqs(chars, n - 1)
         IN  shorter \cup { s \o c : s \in shorter, c \in chars }

Repeat(c, n) == [i \in 1..n |-> c]

Lengths ==
    { 0, 1, 2, V0_LENGTH - 1, V0_LENGTH, 2 * HASH_LENGTH, 2 * HASH_LENGTH + 1 }

\* head, then a run of one filler character, then tail: n bytes in all.
InputStrings ==
    { h \o Repeat(f, n - Len(h) - Len(t)) \o t :
        <<h, f, t, n>> \in
            { q \in CharSeqs(HeadChars, MaxHead) \X FillChars
                    \X CharSeqs(TailChars, MaxTail) \X Lengths :
                Len(q[1]) + Len(q[3]) <= q[4] } }

\* str::is_char_boundary: offset i (0-based) of s.
IsCharBoundary(s, i) ==
    \/ i = 0
    \/ i = Len(s)
    \/ i < Len(s) /\ s[i + 1] # Cont

\* s[from..to] (0-based, half open), as a byte sequence.
Slice(s, from, to) == SubSeq(s, from + 1, to)

StartsWith(s, p) == Len(s) >= Len(p) /\ SubSeq(s, 1, Len(p)) = p

\* The first char of a non-empty string, as its byte sequence.
FirstChar(s) == IF s[1] = Lead THEN SubSeq(s, 1, 2) ELSE <<s[1]>>

(***************************************************************************)
(* u8::from_str_radix(_, 16) on a two-byte slice, as called by             *)
(* AlephItemHash::try_from: an optional leading "+" followed by at least   *)
(* one hex digit; every other byte is an invalid digit.  -1 is the error.  *)
(***************************************************************************)
HexDigitChars ==
    { "0", "1", "2", "3", "4", "5", "6", "7", "8", "9",
      "a", "b", "c", "d", "e", "f", "A", "B", "C", "D", "E", "F" }

HexValue(c) ==
    CASE c = "0" -> 0  [] c = "1" -> 1  [] c = "2" -> 2  [] c = "3" -> 3
      [] c = "4" -> 4  [] c = "5" -> 5  [] c = "6" -> 6  [] c = "7" -> 7
      [] c = "8" -> 8  [] c = "9" -> 9
      [] c \in {"a", "A"} -> 10  [] c \in {"b", "B"} -> 11
      [] c \in {"c", "C"} -> 12  [] c \in {"d", "D"} -> 13
      [] c \in {"e", "E"} -> 14  [] c \in {"f", "F"} -> 15

FromStrRadix16(pair) ==
    IF pair[1] = "+"
    THEN IF pair[2] \in HexDigitChars THEN HexValue(pair[2]) ELSE -1
    ELSE IF pair[1] \in HexDigitChars /\ pair[2] \in HexDigitChars
         THEN 16 * HexValue(pair[1]) + HexValue(pair[2])
         ELSE -1

(***************************************************************************)
(* AlephItemHash::try_from(&str).  The loop takes the pairs in order; the  *)
(* slice &hex[2i..2i+2] panics when an end of it is not a char boundary.   *)
(***************************************************************************)
RECURSIVE AlephLoop(_, _, _)
AlephLoop(hex, i, bytes) ==
    IF i = HASH_LENGTH THEN [tag |-> "Ok", val |-> bytes]
    ELSE IF ~(IsCharBoundary(hex, 2 * i) /\ IsCharBoundary(hex, 2 * i + 2))
         THEN [tag |-> "Panic", val |-> hex]
         ELSE LET b == FromStrRadix16(Slice(hex, 2 * i, 2 * i + 2))
              IN  IF b = -1 THEN [tag |-> "InvalidHexDigit", val |-> hex]
                  ELSE AlephLoop(hex, i + 1, Append(bytes, b))

AlephItemHashTryFrom(hex) ==
    IF Len(hex) # 2 * HASH_LENGTH
    THEN [tag |-> "InvalidLength", val |-> hex]
    ELSE AlephLoop(hex, 0, <<>>)

(***************************************************************************)
(* Cid::try_from(String).                                                  *)
(***************************************************************************)
MultibasePrefixes ==
    { <<"b">>, <<"B">>, <<"z">>, <<"f">>, <<"F">>, <<"m">>, <<"M">>, <<"u">>, <<"U">> }

\* The same without the length condition of the V1 shape.
CidTryFromAnyLength(value) ==
    IF Len(value) = 0 THEN [tag |-> "EmptyString", val |-> value]
    ELSE IF StartsWith(value, <<"Q", "m">>) /\ Len(value) = V0_LENGTH
         THEN [tag |-> "V0", val |-> value]
         ELSE IF FirstChar(value) \in MultibasePrefixes
              THEN [tag |-> "V1", val |-> value]
              ELSE [tag |-> "InvalidFormat", val |-> value]

CidTryFrom(value) ==
    IF Len(value) = 0 THEN [tag |-> "EmptyString", val |-> value]
    ELSE IF StartsWith(value, <<"Q", "m">>) /\ Len(value) = V0_LENGTH
         THEN [tag |-> "V0", val |-> value]
         ELSE IF Len(value) > 1 /\ FirstChar(value) \in MultibasePrefixes
              THEN [tag |-> "V1", val |-> value]
              ELSE [tag |-> "InvalidFormat", val |-> value]

\* CidV0::new, which TryFrom<String> and TryFrom<&str> for CidV0 call.
CidV0New(cid) ==
    IF StartsWith(cid, <<"Q", "m">>) /\ Len(cid) = V0_LENGTH
    THEN [tag |-> "V0", val |-> cid]
    ELSE [tag |-> "InvalidV0", val |-> cid]

\* From<CidV0> for Cid: Cid::V0(value).
CidFromCidV0(v0) == [tag |-> "V0", val |-> v0.val]

(***************************************************************************)
(* ItemHash::try_from(&str): native first, then Cid, then the error.  A    *)
(* panic of the native decode unwinds through the caller.                  *)
(***************************************************************************)
ItemHashTryFrom(value) ==
    LET native == AlephItemHashTryFrom(value)
        cid    == CidTryFrom(value)
    IN  IF native.tag = "Ok" THEN [tag |-> "Native", val |-> native.val]
        ELSE IF native.tag = "Panic" THEN native
        ELSE IF cid.tag \in {"V0", "V1"} THEN [tag |-> "Ipfs", val |-> cid]
        ELSE [tag |-> "UnknownHashType", val |-> value]

(***************************************************************************)
(* Display for AlephItemHash ("{:02x}" of each byte), Display for Cid and  *)
(* Display for ItemHash.                                                   *)
(***************************************************************************)
LowerHexDigits ==
    << "0", "1", "2", "3", "4", "5", "6", "7", "8", "9", "a", "b", "c", "d", "e", "f" >>
UpperHexDigits ==
    << "0", "1", "2", "3", "4", "5", "6", "7", "8", "9", "A", "B", "C", "D", "E", "F" >>

\* The two digits of one byte, taken from a digit table.
HexPair(digits, byte) == << digits[(byte \div 16) + 1], digits[(byte % 16) + 1] >>

RECURSIVE FormatBytes(_, _)
FormatBytes(digits, bytes) ==
    IF bytes = <<>> THEN <<>>
    ELSE HexPair(digits, Head(bytes)) \o FormatBytes(digits, Tail(bytes))

\* The same with upper-case digits ("{:02X}").
AlephItemHashDisplayUpper(bytes) == FormatBytes(UpperHexDigits, bytes)

AlephItemHashDisplay(bytes) == FormatBytes(LowerHexDigits, bytes)

\* Cid::as_str: the stored string of either version.
CidAsStr(cid) == cid.val

ItemHashDisplay(h) ==
    IF h.tag = "Native" THEN AlephItemHashDisplay(h.val) ELSE CidAsStr(h.val)

(***************************************************************************)
(* Serialize / Deserialize for Cid.  A JSON value here is its kind and,    *)
(* for a string, the string.                                               *)
(***************************************************************************)
JsonString(s) == [kind |-> "str", s |-> s]
JsonNumber == [kind |-> "num", s |-> <<>>]

CidSerialize(cid) == JsonString(CidAsStr(cid))

\* The same without the recognition: every string wrapped as a V1.
CidDeserializeUnchecked(j) ==
    IF j.kind # "str" THEN [tag |-> "InvalidType", val |-> j.s]
    ELSE [tag |-> "V1", val |-> j.s]

CidDeserialize(j) ==
    IF j.kind # "str" THEN [tag |-> "InvalidType", val |-> j.s]
    ELSE CidTryFrom(j.s)

\* #[derive(Deserialize)] on the newtype CidV0(String): the string, wrapped.
CidV0Deserialize(j) ==
    IF j.kind # "str" THEN [tag |-> "InvalidType", val |-> j.s]
    ELSE [tag |-> "V0", val |-> j.s]

(***************************************************************************)
(* JSON values of a message payload.  A value is its JSON kind and a token *)
(* for what it holds; nested objects and arrays are opaque tokens, taken   *)
(* to be well formed for the record type that reads them.                  *)
(***************************************************************************)
J(kind, v) == [kind |-> kind, v |-> v]
Absent == J("absent", "")
Null == J("null", "")

\* Value::index of a missing key is Null, and Option<T> reads Null as None.
IsMissing(j) == j.kind \in {"absent", "null"}

ContentKeys ==
    { "address", "time",
      "key", "content",
      "hashes", "aggregates", "reason",
      "ref", "type",
      "allow_amend", "metadata", "variables", "resources", "payment",
      "requirements", "volumes", "replaces", "authorized_keys",
      "environment", "rootfs",
      "code", "runtime", "data", "export", "on",
      "item_type", "item_hash" }

EmptyContent == [k \in ContentKeys |-> Absent]

(***************************************************************************)
(* <f64 as FromStr>::from_str and f64::to_string on the timestamps of the  *)
(* model: the text "1.50" reads as the number 1.5, "inf" as infinity, and  *)
(* "abc" does not parse ("" is the error).                                 *)
(***************************************************************************)
ParseF64(text) ==
    CASE text \in {"1.5", "1.50"} -> "1.5"
      [] text \in {"2.5"} -> "2.5"
      [] text \in {"inf"} -> "inf"
      [] OTHER -> ""

\* Timestamp::deserialize: a number, or a string that parses as f64.
TimestampDeserialize(j) ==
    IF j.kind = "num" THEN [ok |-> TRUE, val |-> ParseF64(j.v)]
    ELSE IF j.kind = "str" /\ ParseF64(j.v) # ""
         THEN [ok |-> TRUE, val |-> ParseF64(j.v)]
         ELSE [ok |-> FALSE, val |-> ""]

\* Timestamp::serialize: Number::from_str(f64::to_string()), an error for a
\* value that is not finite.
TimestampSerialize(t) ==
    IF t = "inf" THEN [ok |-> FALSE, val |-> Null]
    ELSE [ok |-> TRUE, val |-> J("num", t)]

\* Address::deserialize (a newtype of String).
AddressDeserialize(j) ==
    IF j.kind = "str" THEN [ok |-> TRUE, val |-> j.v] ELSE [ok |-> FALSE, val |-> ""]

(***************************************************************************)
(* Derived struct decoding.  A field is <<name, accepted kinds, how>>, how *)
(* being "required", "option" (absent or null reads as None) or "default"  *)
(* (absent reads as the Default value, null is a type error).  The result  *)
(* lists the decoded fields in declaration order, which is also the order  *)
(* the derived Serialize writes them in.                                   *)
(***************************************************************************)
FieldBad(c, f) ==
    LET j == c[f[1]]
    IN  CASE j.kind = "absent" -> FALSE
          [] j.kind = "null" -> f[3] # "option"
          [] OTHER -> j.kind \notin f[2]

FieldLacking(c, f) == f[3] = "required" /\ c[f[1]].kind = "absent"

FieldValue(c, f) ==
    LET j == c[f[1]]
    IN  CASE j.kind = "absent" /\ f[3] = "option" -> Null
          [] j.kind = "absent" /\ f[3] = "default" -> f[4]
          [] f[1] = "metadata" /\ j.kind = "arr" -> J("obj", "{}")
          [] OTHER -> j

DecodeError(kind, field) == [ok |-> FALSE, err |-> kind, field |-> field, fields |-> <<>>]

DecodeStruct(c, spec) ==
    LET bad == { i \in DOMAIN spec : FieldBad(c, spec[i]) }
        lacking == { i \in DOMAIN spec : FieldLacking(c, spec[i]) }
        first(S) == CHOOSE i \in S : \A j \in S : i <= j
    IN  IF bad # {} THEN DecodeError("invalid type", spec[first(bad)][1])
        ELSE IF lacking # {} THEN DecodeError("missing field", spec[first(lacking)][1])
        ELSE [ok |-> TRUE, err |-> "", field |-> "",
              fields |-> [i \in DOMAIN spec |-> <<spec[i][1], FieldValue(c, spec[i])>>]]

AnyKind == {"str", "num", "obj", "arr", "bool"}

AggregateContentFields ==
    << <<"key", {"str", "obj"}, "required", Null>>,
       <<"content", {"obj"}, "required", Null>> >>

ForgetContentFields ==
    << <<"hashes", {"arr"}, "required", Null>>,
       <<"aggregates", {"arr"}, "default", J("arr", "[]")>>,
       <<"reason", {"str"}, "option", Null>> >>

\* deserialize_metadata_tolerant takes an object, or an array that is empty.
MetadataOk(c) == c["metadata"].kind = "arr" => c["metadata"].v = "[]"

ExecutableContentFields ==
    << <<"allow_amend", {"bool"}, "required", Null>>,
       <<"metadata", {"obj", "arr"}, "option", Null>>,
       <<"variables", {"obj"}, "option", Null>>,
       <<"resources", {"obj"}, "required", Null>>,
       <<"payment", {"obj"}, "option", Null>>,
       <<"requirements", {"obj"}, "option", Null>>,
       <<"volumes", {"arr"}, "default", J("arr", "[]")>>,
       <<"replaces", {"str"}, "option", Null>>,
       <<"authorized_keys", {"arr"}, "option", Null>> >>

InstanceContentFields ==
    ExecutableContentFields \o
    << <<"environment", {"obj"}, "required", Null>>,
       <<"rootfs", {"obj"}, "required", Null>> >>

ProgramContentFields ==
    ExecutableContentFields \o
    << <<"code", {"obj"}, "required", Null>>,
       <<"runtime", {"obj"}, "required", Null>>,
       <<"data", {"obj"}, "option", Null>>,
       <<"environment", {"obj"}, "required", Null>>,
       <<"export", {"obj"}, "option", Null>>,
       <<"on", {"obj"}, "required", Null>> >>

StoreContentFields ==
    << <<"item_type", {"str"}, "required", Null>>,
       <<"item_hash", {"str"}, "required", Null>> >>

\* PostType is untagged: Amend { ref } is tried first, then Other { type }.
PostTypeField(c) ==
    IF c["ref"].kind = "str" THEN "ref"
    ELSE IF c["type"].kind = "str" THEN "type"
    ELSE ""

PostContentDeserialize(c) ==
    IF PostTypeField(c) = ""
    THEN DecodeError("no variant of PostType", "type")
    ELSE DecodeStruct(c, << <<PostTypeField(c), {"str"}, "required", Null>>,
                            <<"content", AnyKind, "option", Null>> >>)

ExecutableDeserialize(c, spec) ==
    IF ~MetadataOk(c) THEN DecodeError("invalid type", "metadata")
    ELSE DecodeStruct(c, spec)

MessageTypes == {"Aggregate", "Forget", "Instance", "Post", "Program", "Store"}

\* One arm of the match on raw.message_type: the constructor of
\* MessageContentEnum and the decode result it wraps.
Variant(variant, r) ==
    [ok |-> r.ok, err |-> r.err, field |-> r.field,
     variant |-> IF r.ok THEN variant ELSE "", fields |-> r.fields]

AsAggregate(c) == Variant("Aggregate", DecodeStruct(c, AggregateContentFields))
AsForget(c) == Variant("Forget", DecodeStruct(c, ForgetContentFields))
AsInstance(c) == Variant("Instance", ExecutableDeserialize(c, InstanceContentFields))
AsPost(c) == Variant("Post", PostContentDeserialize(c))
AsProgram(c) == Variant("Program", ExecutableDeserialize(c, ProgramContentFields))
AsStore(c) == Variant("Store", DecodeStruct(c, StoreContentFields))

\* What the derived, untagged Deserialize of MessageContentEnum does: the
\* first variant, in declaration order, that the payload satisfies.
ContentDeserializeUntagged(type, c) ==
    CASE AsAggregate(c).ok -> AsAggregate(c)
      [] AsForget(c).ok -> AsForget(c)
      [] AsInstance(c).ok -> AsInstance(c)
      [] AsPost(c).ok -> AsPost(c)
      [] AsProgram(c).ok -> AsProgram(c)
      [] OTHER -> AsStore(c)

\* The match on raw.message_type in Message::deserialize.
ContentDeserialize(type, c) ==
    CASE type = "Aggregate" -> AsAggregate(c)
      [] type = "Forget" -> AsForget(c)
      [] type = "Instance" -> AsInstance(c)
      [] type = "Post" -> AsPost(c)
      [] type = "Program" -> AsProgram(c)
      [] type = "Store" -> AsStore(c)

(***************************************************************************)
(* Byte strings of the message engine.  A JSON text is the sequence of its *)
(* <<key, value>> members and its layout: two texts with the same members  *)
(* and different layouts are different byte strings.  serde_json::to_string*)
(* writes the "compact" layout.                                            *)
(***************************************************************************)
Text(body, fmt) == [body |-> body, fmt |-> fmt]
NoText == Text(<<>>, "none")

(***************************************************************************)
(* Digests and identifiers.  SHA-256 is a free, collision-free function of *)
(* the bytes: the digest of a text is the term Sha256(text).               *)
(***************************************************************************)
Sha256(bytes) == [alg |-> "sha2-256", of |-> bytes]

\* AlephItemHash::from_bytes, then From<AlephItemHash> for ItemHash.
NativeHash(digest) == [variant |-> "Native", version |-> "", digest |-> digest]
AlephItemHashFromBytes(bytes) == Sha256(bytes)

\* From<Cid> for ItemHash.
IpfsHash(version, digest) == [variant |-> "Ipfs", version |-> version, digest |-> digest]

\* CidV0::from_bytes: the CID V0 of the bytes, base58 of the sha2-256 multihash.
CidV0FromBytes(bytes) == Sha256(bytes)

\* The text forms of an identifier: 64 hex characters, "Qm" + 44 base58
\* characters, a multibase string, or a string of no recognised shape.
WireHash(form, digest) == [form |-> form, digest |-> digest]

\* ItemHash is #[serde(untagged)]: Native is tried first, then Cid.
ItemHashDeserialize(w) ==
    CASE w.form = "hex64" -> [ok |-> TRUE, val |-> NativeHash(w.digest)]
      [] w.form = "Qm46" -> [ok |-> TRUE, val |-> IpfsHash("V0", w.digest)]
      [] w.form = "multibase" -> [ok |-> TRUE, val |-> IpfsHash("V1", w.digest)]
      [] OTHER -> [ok |-> FALSE, val |-> NativeHash(w.digest)]

\* Serialize for ItemHash: the Display form of the variant it holds.
ItemHashSerialize(h) ==
    CASE h.variant = "Native" -> WireHash("hex64", h.digest)
      [] h.version = "V0" -> WireHash("Qm46", h.digest)
      [] OTHER -> WireHash("multibase", h.digest)

(***************************************************************************)
(* MessageType, #[serde(rename_all = "UPPERCASE")].                        *)
(***************************************************************************)
MessageTypeTag(type) ==
    CASE type = "Aggregate" -> "AGGREGATE"
      [] type = "Forget" -> "FORGET"
      [] type = "Instance" -> "INSTANCE"
      [] type = "Post" -> "POST"
      [] type = "Program" -> "PROGRAM"
      [] type = "Store" -> "STORE"

MessageTypeDeserialize(j) ==
    IF j.kind = "str" /\ \E t \in MessageTypes : MessageTypeTag(t) = j.v
    THEN [ok |-> TRUE, val |-> CHOOSE t \in MessageTypes : MessageTypeTag(t) = j.v]
    ELSE [ok |-> FALSE, val |-> ""]

(***************************************************************************)
(* ContentSource::deserialize, from the item_type and item_content members.*)
(* item is [kind, text]: the JSON kind of item_content and, for a string,  *)
(* the string.                                                             *)
(***************************************************************************)
ContentSource(source, text) == [source |-> source, item_content |-> text]

SourceError(kind, what) ==
    [ok |-> FALSE, err |-> kind, what |-> what, val |-> ContentSource("", NoText)]

SourceOk(source, text) ==
    [ok |-> TRUE, err |-> "", what |-> "", val |-> ContentSource(source, text)]

\* The same with an unrecognised item_type read as Storage.
ContentSourceDeserializeLenient(item_type, item) ==
    IF item_type.kind \notin {"str", "absent"}
    THEN SourceError("invalid type", "item_type")
    ELSE IF item.kind \notin {"str", "null", "absent"}
    THEN SourceError("invalid type", "item_content")
    ELSE IF item_type.kind = "absent"
    THEN SourceError("missing field", "item_type")
    ELSE CASE item_type.v = "inline" ->
                IF item.kind = "str" THEN SourceOk("Inline", item.text)
                ELSE SourceError("missing field", "item_content")
           [] item_type.v = "ipfs" -> SourceOk("Ipfs", NoText)
           [] OTHER -> SourceOk("Storage", NoText)

ContentSourceDeserialize(item_type, item) ==
    IF item_type.kind \notin {"str", "absent"}
    THEN SourceError("invalid type", "item_type")
    ELSE IF item.kind \notin {"str", "null", "absent"}
    THEN SourceError("invalid type", "item_content")
    ELSE IF item_type.kind = "absent"
    THEN SourceError("missing field", "item_type")
    ELSE CASE item_type.v = "inline" ->
                IF item.kind = "str" THEN SourceOk("Inline", item.text)
                ELSE SourceError("missing field", "item_content")
           [] item_type.v = "storage" -> SourceOk("Storage", NoText)
           [] item_type.v = "ipfs" -> SourceOk("Ipfs", NoText)
           [] OTHER -> SourceError("unknown variant", item_type.v)

(***************************************************************************)
(* Message::deserialize.                                                   *)
(***************************************************************************)
MessageContent(address, time, variant, fields) ==
    [address |-> address, time |-> time, variant |-> variant, fields |-> fields]

NoContent == MessageContent("", "", "", <<>>)

NoMessage ==
    [chain |-> "", sender |-> "", signature |-> "",
     content_source |-> ContentSource("", NoText),
     item_hash |-> NativeHash(Sha256(NoText)),
     confirmations |-> <<>>, time |-> "", channel |-> Null,
     message_type |-> "", content |-> NoContent]

Failed(kind, what) == [ok |-> FALSE, err |-> kind, what |-> what, msg |-> NoMessage]

MessageDeserialize(p) ==
    LET hash == ItemHashDeserialize(p.item_hash)
        type == MessageTypeDeserialize(p.type)
        src == ContentSourceDeserialize(p.item_type, p.item_content)
        address == AddressDeserialize(p.content["address"])
        time == TimestampDeserialize(p.content["time"])
        sent == TimestampDeserialize(p.time)
    IN  IF ~hash.ok THEN Failed("no variant of ItemHash", "item_hash")
        ELSE IF p.confirmations.kind \notin {"arr", "null", "absent"}
        THEN Failed("invalid type", "confirmations")
        ELSE IF p.channel.kind \notin {"str", "null", "absent"}
        THEN Failed("invalid type", "channel")
        ELSE IF ~sent.ok THEN Failed("invalid type", "time")
        ELSE IF p.type.kind = "absent" THEN Failed("missing field", "type")
        ELSE IF ~type.ok THEN Failed("unknown variant", "type")
        ELSE IF ~src.ok THEN Failed(src.err, src.what)
        ELSE IF ~address.ok THEN Failed("invalid type", "content.address")
        ELSE IF ~time.ok THEN Failed("invalid type", "content.time")
        ELSE LET body == ContentDeserialize(type.val, p.content)
             IN  IF ~body.ok THEN Failed(body.err, body.field)
                 ELSE [ok |-> TRUE, err |-> "", what |-> "",
                       msg |-> [chain |-> p.chain,
                                sender |-> p.sender,
                                signature |-> p.signature,
                                content_source |-> src.val,
                                item_hash |-> hash.val,
                                confirmations |->
                                    IF p.confirmations.kind = "arr"
                                    THEN p.confirmations.list ELSE <<>>,
                                time |-> sent.val,
                                channel |->
                                    IF p.channel.kind = "str" THEN p.channel ELSE Null,
                                message_type |-> type.val,
                                content |-> MessageContent(address.val, time.val,
                                                           body.variant,
                                                           body.fields)]]

\* The same without the negation.
ConfirmedInverted(m) == m.confirmations = <<>>

\* Message::confirmed.
Confirmed(m) == m.confirmations # <<>>

(***************************************************************************)
(* serde_json::to_string(&self.content): address, time, then the flattened *)
(* fields of the variant.  It fails when the time is not finite.           *)
(***************************************************************************)
MessageContentToJson(content) ==
    LET time == TimestampSerialize(content.time)
    IN  IF ~time.ok THEN [ok |-> FALSE, text |-> NoText]
        ELSE [ok |-> TRUE,
              text |-> Text(<< <<"address", J("str", content.address)>>,
                               <<"time", time.val>> >> \o content.fields,
                            "compact")]

(***************************************************************************)
(* Message::compute_item_hash and Message::verify_item_hash.  printed is   *)
(* what the two println! calls of the Storage / Ipfs arm write to stdout.  *)
(***************************************************************************)
Computed(ok, hash, printed) == [ok |-> ok, hash |-> hash, printed |-> printed]

\* The same with the re-serialized content hashed in every arm.
ComputeItemHashOfContent(m) ==
    LET json == MessageContentToJson(m.content)
        lines == << <<"SERIALIZED CONTENT", json.text>>,
                    <<"SERIALIZED CONTENT BYTES", json.text>> >>
    IN  CASE ~json.ok -> Computed(FALSE, NoMessage.item_hash, <<>>)
          [] m.content_source.source = "Inline" ->
                Computed(TRUE, NativeHash(AlephItemHashFromBytes(json.text)), <<>>)
          [] m.content_source.source = "Storage" ->
                Computed(TRUE, NativeHash(AlephItemHashFromBytes(json.text)), lines)
          [] OTHER ->
                Computed(TRUE, IpfsHash("V0", CidV0FromBytes(json.text)), lines)

\* The same with the native digest in every arm.
ComputeItemHashNativeOnly(m) ==
    LET json == MessageContentToJson(m.content)
        lines == << <<"SERIALIZED CONTENT", json.text>>,
                    <<"SERIALIZED CONTENT BYTES", json.text>> >>
    IN  CASE m.content_source.source = "Inline" ->
                Computed(TRUE,
                         NativeHash(AlephItemHashFromBytes(m.content_source.item_content)),
                         <<>>)
          [] ~json.ok -> Computed(FALSE, NoMessage.item_hash, <<>>)
          [] OTHER ->
                Computed(TRUE, NativeHash(AlephItemHashFromBytes(json.text)), lines)

ComputeItemHash(m) ==
    LET json == MessageContentToJson(m.content)
        lines == << <<"SERIALIZED CONTENT", json.text>>,
                    <<"SERIALIZED CONTENT BYTES", json.text>> >>
    IN  CASE m.content_source.source = "Inline" ->
                Computed(TRUE,
                         NativeHash(AlephItemHashFromBytes(m.content_source.item_content)),
                         <<>>)
          [] ~json.ok -> Computed(FALSE, NoMessage.item_hash, <<>>)
          [] m.content_source.source = "Storage" ->
                Computed(TRUE, NativeHash(AlephItemHashFromBytes(json.text)), lines)
          [] OTHER ->
                Computed(TRUE, IpfsHash("V0", CidV0FromBytes(json.text)), lines)

Verdict(result, expected, actual) ==
    [result |-> result, expected |-> expected, actual |-> actual]

NoVerdict == Verdict("", NoMessage.item_hash, NoMessage.item_hash)

\* A comparison of the digests alone.
HashesDifferByDigest(actual, claimed) == actual.digest # claimed.digest

\* actual_hash != self.item_hash, the derived PartialEq of ItemHash.
HashesDiffer(actual, claimed) == actual # claimed

VerifyItemHash(m) ==
    LET c == ComputeItemHash(m)
    IN  IF ~c.ok
        THEN Verdict("SerializationError", NoMessage.item_hash, NoMessage.item_hash)
        ELSE IF HashesDiffer(c.hash, m.item_hash)
        THEN Verdict("ItemHashVerificationFailed", m.item_hash, c.hash)
        ELSE Verdict("Ok", NoMessage.item_hash, NoMessage.item_hash)

(***************************************************************************)
(* impl Serialize for Message: twelve members, in this order.              *)
(***************************************************************************)
SourceTag(source) ==
    CASE source = "Inline" -> "inline"
      [] source = "Storage" -> "storage"
      [] source = "Ipfs" -> "ipfs"

MessageMembers(m, time, content) ==
    << <<"sender", J("str", m.sender)>>,
       <<"chain", J("str", m.chain)>>,
       <<"signature", J("str", m.signature)>>,
       <<"type", J("str", MessageTypeTag(m.message_type))>>,
       <<"item_content",
         IF m.content_source.source = "Inline"
         THEN [kind |-> "str", text |-> m.content_source.item_content]
         ELSE [kind |-> "null", text |-> NoText]>>,
       <<"item_hash", ItemHashSerialize(m.item_hash)>>,
       <<"item_type", J("str", SourceTag(m.content_source.source))>>,
       <<"time", time>>,
       <<"channel", m.channel>>,
       <<"content", content>>,
       <<"confirmed", J("bool", IF Confirmed(m) THEN "true" ELSE "false")>>,
       <<"confirmations", m.confirmations>> >>

MessageSerialize(m) ==
    LET time == TimestampSerialize(m.time)
        content == MessageContentToJson(m.content)
    IN  IF ~time.ok \/ ~content.ok THEN [ok |-> FALSE, members |-> <<>>]
        ELSE [ok |-> TRUE, members |-> MessageMembers(m, time.val, content.text)]

\* serde_json reading the text that MessageSerialize wrote: the members by
\* name, the content object by the names of its own members.
Member(members, key) ==
    members[CHOOSE i \in DOMAIN members : members[i][1] = key][2]

ParseSerialized(members) ==
    LET content == Member(members, "content").body
    IN  [chain |-> Member(members, "chain").v,
         sender |-> Member(members, "sender").v,
         signature |-> Member(members, "signature").v,
         time |-> Member(members, "time"),
         type |-> Member(members, "type"),
         content |-> [k \in ContentKeys |->
                        IF \E i \in DOMAIN content : content[i][1] = k
                        THEN Member(content, k) ELSE Absent],
         item_type |-> Member(members, "item_type"),
         item_content |-> Member(members, "item_content"),
         item_hash |-> Member(members, "item_hash"),
         confirmations |-> [kind |-> "arr", list |-> Member(members, "confirmations")],
         confirmed |-> Member(members, "confirmed"),
         channel |-> Member(members, "channel")]

(***************************************************************************)
(* The payloads of the message specification.                              *)
(***************************************************************************)
GoodValue(k) ==
    CASE k \in {"address", "key", "reason", "ref", "type", "replaces",
                "item_type", "item_hash"} -> J("str", "a")
      [] k = "time" -> J("num", "1.5")
      [] k = "allow_amend" -> J("bool", "true")
      [] k \in {"hashes", "aggregates", "volumes", "authorized_keys"} -> J("arr", "[a]")
      [] OTHER -> J("obj", "{a}")

TemplateKeys(type) ==
    CASE type = "Aggregate" -> {"key", "content"}
      [] type = "Forget" -> {"hashes"}
      [] type = "Instance" -> {"allow_amend", "resources", "environment", "rootfs"}
      [] type = "Post" -> {"type", "content"}
      [] type = "Program" ->
            {"allow_amend", "resources", "code", "runtime", "environment", "on"}
      [] type = "Store" -> {"item_type", "item_hash"}
      [] OTHER -> {}

\* A payload that satisfies every type of the set.
Template(types) ==
    [k \in ContentKeys |->
        IF k \in {"address", "time"} \/ \E t \in types : k \in TemplateKeys(t)
        THEN GoodValue(k) ELSE Absent]

With(c, k, j) == [c EXCEPT ![k] = j]

Present(c) == { k \in ContentKeys : c[k].kind # "absent" }

\* A payload, the payload without one member, with one member of another
\* JSON kind, with another spelling of the time, with a metadata member.
Variations(c) ==
    {c}
    \cup { With(c, k, Absent) : k \in Present(c) }
    \cup { With(c, k, J("num", "7")) : k \in Present(c) }
    \cup { With(c, "time", t) :
             t \in {J("str", "1.50"), J("str", "inf"), J("str", "abc"), Null} }
    \cup { With(c, "metadata", j) : j \in {J("arr", "[]"), J("arr", "[a]")} }
    \cup { With(c, k, GoodValue(k)) : k \in {"ref", "reason"} }

ContentPayloads ==
    UNION { Variations(Template({t, u})) : t \in MessageTypes, u \in MessageTypes \cup {""} }

TypeTags ==
    { J("str", MessageTypeTag(t)) : t \in MessageTypes } \cup { J("str", "post"), Absent }

\* The text serde_json::to_string gives for the content of a payload, and
\* the same members in another layout.
CanonicalText(tag, c) ==
    LET type == MessageTypeDeserialize(tag)
        address == AddressDeserialize(c["address"])
        time == TimestampDeserialize(c["time"])
        body == IF type.ok THEN ContentDeserialize(type.val, c)
                ELSE DecodeError("", "")
    IN  IF type.ok /\ address.ok /\ time.ok /\ body.ok
        THEN MessageContentToJson(
                 MessageContent(address.val, time.val, type.val, body.fields)).text
        ELSE NoText

SpacedText(tag, c) == Text(CanonicalText(tag, c).body, "spaced")

ItemContents(tag, c) ==
    { [kind |-> "absent", text |-> NoText],
      [kind |-> "null", text |-> NoText],
      [kind |-> "num", text |-> NoText],
      [kind |-> "str", text |-> CanonicalText(tag, c)],
      [kind |-> "str", text |-> SpacedText(tag, c)] }

ItemTypes ==
    { J("str", "inline"), J("str", "storage"), J("str", "ipfs"),
      J("str", "INLINE"), J("num", "7"), Absent }

ItemHashes(tag, c) ==
    { WireHash(form, Sha256(text)) :
        form \in {"hex64", "Qm46"},
        text \in {CanonicalText(tag, c), SpacedText(tag, c)} }
    \cup { WireHash("multibase", Sha256(CanonicalText(tag, c))),
           WireHash("garbage", Sha256(CanonicalText(tag, c))) }

Confirmation(i) == [chain |-> "ETH", height |-> i, hash |-> "0xb"]

Confirmations ==
    { [kind |-> "absent", list |-> <<>>], [kind |-> "null", list |-> <<>>] }
    \cup { [kind |-> "arr", list |-> [i \in 1..n |-> Confirmation(i)]] :
             n \in 0..MaxConfirmations }

Payload(tag, c, item_type, item, hash, confs, flag, channel) ==
    [chain |-> "ETH", sender |-> "0xS", signature |-> "0xsig",
     time |-> J("num", "2.5"),
     type |-> tag, content |-> c,
     item_type |-> item_type, item_content |-> item, item_hash |-> hash,
     confirmations |-> confs, confirmed |-> flag, channel |-> channel]

\* Every envelope member varied, over three contents.
EnvelopeCases ==
    { <<J("str", "POST"), Template({"Post"})>>,
      <<J("str", "STORE"), Template({"Store"})>>,
      <<J("str", "STORE"), With(Template({"Store"}), "time", J("str", "inf"))>> }

EnvelopePayloads ==
    UNION { { Payload(tc[1], tc[2], it, ic, h, cf, fl, ch) :
                it \in ItemTypes,
                ic \in ItemContents(tc[1], tc[2]),
                h \in ItemHashes(tc[1], tc[2]),
                cf \in Confirmations,
                fl \in {Absent, J("bool", "true")},
                ch \in {Absent, Null, J("str", "TEST")} } :
            tc \in EnvelopeCases }

\* Every content payload under every type tag, in one envelope.
ContentCasePayloads ==
    { Payload(tag, c, J("str", "storage"), [kind |-> "absent", text |-> NoText],
              WireHash("hex64", Sha256(CanonicalText(tag, c))),
              [kind |-> "absent", list |-> <<>>], Absent, J("str", "TEST")) :
        tag \in TypeTags, c \in ContentPayloads }

Payloads == EnvelopePayloads \cup ContentCasePayloads

(***************************************************************************)
(* run_ws_loop (aleph-sdk ws.rs): the constants, the items it sends and    *)
(* the state it starts in.                                                 *)
(***************************************************************************)
INITIAL_BACKOFF_MS == 100
MAX_BACKOFF_MS == 30000

\* The slots of the mpsc channel in the model (CHANNEL_BUFFER_SIZE in the
\* code), and the value the two counters saturate at.
QueueSlots == 2
MaxCount == 10

Min(a, b) == IF a <= b THEN a ELSE b

\* Text frames and the items made of them carry a serial number, counted
\* modulo FrameIds: more than the items the channel and tx.send can hold.
FrameIds == QueueSlots + 2

\* An item handed to tx.send: the value, the place of the send and, for the
\* item of a text frame, the serial number of the frame and whether its
\* text was a valid message.
Item(item, from, n, frame) == [item |-> item, from |-> from, n |-> n, frame |-> frame]

NoPending == Item("", "", 0, "")

WsIdle ==
    /\ wsPc = "idle"
    /\ backoff_ms = 0
    /\ rx = "none"
    /\ queue = <<>>
    /\ pending = NoPending
    /\ waited = 0
    /\ attempts = 0
    /\ failures = 0
    /\ framesRead = 0
    /\ itemsReceived = 0

(***************************************************************************)
(* MessageWithStatus::status (aleph-sdk client.rs) and MessageStatus       *)
(* (aleph-types base_message.rs).                                          *)
(***************************************************************************)
MaxListed == 2

\* The variants of the coarse enum MessageStatus.
MessageStatusValues == {"Pending", "Processed", "Removing", "Removed", "Forgotten"}

\* The variants of the tagged enum MessageWithStatus.
MessageWithStatusVariants ==
    {"Pending", "Processed", "Removing", "Removed", "Forgotten", "Rejected"}

RemovalReasons == {"BalanceInsufficient", "CreditInsufficient"}
ErrorCodes == {-1, 0, 1}

\* A MessageWithStatus value: its variant, the type of the message(s) it
\* holds, the length of its list (messages of Pending, forgotten_by of
\* Forgotten), its reason and its error_code.
WithStatus(variant, type, listed, reason, code) ==
    [variant |-> variant, message_type |-> type, listed |-> listed,
     reason |-> reason, error_code |-> code]

MessageWithStatusValues ==
    { WithStatus("Pending", t, n, "", 0) : t \in MessageTypes, n \in 0..MaxListed }
    \cup { WithStatus("Processed", t, 0, "", 0) : t \in MessageTypes }
    \cup { WithStatus(v, t, 0, r, 0) :
             v \in {"Removing", "Removed"}, t \in MessageTypes, r \in RemovalReasons }
    \cup { WithStatus("Forgotten", t, n, "", 0) : t \in MessageTypes, n \in 0..MaxListed }
    \cup { WithStatus("Rejected", t, 0, "", c) : t \in MessageTypes, c \in ErrorCodes }

\* MessageWithStatus::status: each arm names the MessageStatus variant of
\* the same name.  An arm that names a variant MessageStatus does not have
\* yields no value (the path does not resolve).
MessageWithStatusStatus(m) ==
    IF m.variant \in MessageStatusValues
    THEN [tag |-> "MessageStatus", val |-> m.variant]
    ELSE [tag |-> "NoSuchVariant", val |-> m.variant]

(***************************************************************************)
(* u64 arithmetic of memory_size.rs.  A u64 is written as the sequence of  *)
(* its 16-bit limbs, least significant first and without leading zero      *)
(* limbs (zero is the empty sequence); a value fits in a u64 when it has   *)
(* at most four limbs.  Every product and quotient below is by 1000 or     *)
(* 1024, the factors the unit sizes are made of.                           *)
(***************************************************************************)
LimbBase == 65536
U64Limbs == 4

RECURSIVE FromInt(_)
FromInt(n) == IF n = 0 THEN <<>> ELSE <<n % LimbBase>> \o FromInt(n \div LimbBase)

RECURSIVE Norm(_)
Norm(n) ==
    IF n # <<>> /\ n[Len(n)] = 0 THEN Norm(SubSeq(n, 1, Len(n) - 1)) ELSE n

\* n * s + carry
RECURSIVE MulSmall(_, _, _)
MulSmall(n, s, carry) ==
    IF n = <<>> THEN FromInt(carry)
    ELSE LET t == Head(n) * s + carry
         IN  <<t % LimbBase>> \o MulSmall(Tail(n), s, t \div LimbBase)

AddSmall(n, a) == Norm(MulSmall(n, 1, a))

\* n / s and n % s
RECURSIVE DivSmall(_, _)
DivSmall(n, s) ==
    IF n = <<>> THEN [q |-> <<>>, r |-> 0]
    ELSE LET up == DivSmall(Tail(n), s)
             cur == up.r * LimbBase + Head(n)
         IN  [q |-> <<cur \div s>> \o up.q, r |-> cur % s]

\* n * f^k
RECURSIVE MulPow(_, _, _)
MulPow(n, f, k) == IF k = 0 THEN n ELSE MulPow(Norm(MulSmall(n, f, 0)), f, k - 1)

\* n / f^k and n % f^k; the remainder is below 2^30 and is a plain integer.
RECURSIVE DivPow(_, _, _)
DivPow(n, f, k) ==
    IF k = 0 THEN [q |-> n, r |-> 0]
    ELSE LET one == DivSmall(n, f)
             rest == DivPow(Norm(one.q), f, k - 1)
         IN  [q |-> rest.q, r |-> one.r + f * rest.r]

FitsU64(n) == Len(n) <= U64Limbs

\* a < b
RECURSIVE Less(_, _)
Less(a, b) ==
    IF Len(a) # Len(b) THEN Len(a) < Len(b)
    ELSE IF a = <<>> THEN FALSE
    ELSE IF a[Len(a)] # b[Len(b)] THEN a[Len(a)] < b[Len(b)]
    ELSE Less(SubSeq(a, 1, Len(a) - 1), SubSeq(b, 1, Len(b) - 1))

(***************************************************************************)
(* The memory units: BYTES_PER_UNIT of a unit is factor^power.             *)
(***************************************************************************)
Unit(name, factor, power) == [name |-> name, factor |-> factor, power |-> power]

Bytes == Unit("Bytes", 1024, 0)
KiB == Unit("KiB", 1024, 1)
MiB == Unit("MiB", 1024, 2)
GiB == Unit("GiB", 1024, 3)
KB == Unit("KB", 1000, 1)
MB == Unit("MB", 1000, 2)
GB == Unit("GB", 1000, 3)

MemoryUnits == {Bytes, KiB, MiB, GiB, KB, MB, GB}

BYTES_PER_UNIT(T) == T.factor ^ T.power

Roundings == {"Floor", "Ceil", "Nearest"}

MemOk(units) == [tag |-> "Ok", val |-> units]
MemOverflow == [tag |-> "Overflow", val |-> <<>>]
MemSome(units) == [tag |-> "Some", val |-> units]
MemNone == [tag |-> "None", val |-> <<>>]

\* MemorySize::to_bytes of `units` units of S: a checked multiplication.
ToBytes(units, S) ==
    LET product == MulPow(units, S.factor, S.power)
    IN  IF FitsU64(product) THEN MemOk(product) ELSE MemOverflow

\* The rounding of the Nearest arm, with ties going up.
NearestAddTiesUp(q, r, d) == IF 2 * r >= d THEN 1 ELSE 0

\* The Nearest arm of to_rounded: ties to even on q.  twice_r is below
\* 2^31, so its checked multiplication does not overflow.
NearestAdd(q, r, d) ==
    LET twice_r == r * 2
        odd == q # <<>> /\ q[1] % 2 = 1
    IN  IF twice_r > d \/ (twice_r = d /\ odd) THEN 1 ELSE 0

\* MemorySize::to_rounded::<T>(mode) of `units` units of S.
ToRounded(units, S, T, mode) ==
    LET bytes == ToBytes(units, S)
        d == BYTES_PER_UNIT(T)
        qr == DivPow(bytes.val, T.factor, T.power)
        add == CASE mode = "Floor" -> 0
                 [] mode = "Ceil" -> IF qr.r > 0 THEN 1 ELSE 0
                 [] mode = "Nearest" -> NearestAdd(qr.q, qr.r, d)
        sum == AddSmall(qr.q, add)
    IN  IF bytes.tag # "Ok" THEN MemOverflow
        ELSE IF FitsU64(sum) THEN MemOk(sum) ELSE MemOverflow

\* The same without the divisibility test.
ToExactTruncating(units, S, T) ==
    LET bytes == ToBytes(units, S)
    IN  IF bytes.tag # "Ok" THEN MemNone
        ELSE MemSome(DivPow(bytes.val, T.factor, T.power).q)

\* MemorySize::to_exact::<T> of `units` units of S.
ToExact(units, S, T) ==
    LET bytes == ToBytes(units, S)
        qr == DivPow(bytes.val, T.factor, T.power)
    IN  IF bytes.tag # "Ok" THEN MemNone
        ELSE IF qr.r = 0 THEN MemSome(qr.q) ELSE MemNone

\* impl TryFrom<Bytes> for a unit T declared by mem_unit!: the quotient when
\* the byte count is a multiple of the size of T, MemConvError::Overflow
\* otherwise.
TryFromBytes(b, T) ==
    LET qr == DivPow(b, T.factor, T.power)
    IN  IF qr.r = 0 THEN MemOk(qr.q) ELSE MemOverflow

(***************************************************************************)
(* f64 arithmetic of gigabyte_to_mebibyte.  Every value it computes is a   *)
(* non-negative integer divided by 2^20, so an f64 is written as the       *)
(* integer it holds: a u64 cast or a product is rounded to the 53          *)
(* significant bits of an f64 (to nearest, ties to even), the division by  *)
(* 2^20 only changes the exponent and is exact, and `as u64` saturates.    *)
(***************************************************************************)
F64MantissaBits == 53

U64Max == [i \in 1..U64Limbs |-> LimbBase - 1]

\* The number of significant bits of n.
BitLen(n) ==
    IF n = <<>> THEN 0
    ELSE LET top == n[Len(n)]
         IN  16 * (Len(n) - 1) + CHOOSE k \in 1..16 : 2^(k - 1) <= top /\ top < 2^k

\* n shifted right by k bits: the quotient, the last bit shifted out and
\* whether a bit shifted out before it was set.
RoundShift(n, k) ==
    LET limbs == k \div 16
        bits == k % 16
        dropped == SubSeq(n, 1, limbs)
        d == DivSmall(SubSeq(n, limbs + 1, Len(n)), 2^bits)
        last == IF bits > 0 THEN d.r ELSE dropped[limbs]
        weight == IF bits > 0 THEN 2^(bits - 1) ELSE LimbBase \div 2
        before == IF bits > 0 THEN dropped ELSE SubSeq(dropped, 1, limbs - 1)
    IN  [q |-> Norm(d.q),
         half |-> last \div weight,
         sticky |-> last % weight # 0 \/ \E i \in DOMAIN before : before[i] # 0]

\* n shifted left by k bits.
ShiftLeft(n, k) ==
    IF n = <<>> THEN n
    ELSE [i \in 1..(k \div 16) |-> 0] \o Norm(MulSmall(n, 2^(k % 16), 0))

\* The f64 nearest to the integer n, ties to even.
RoundToF64(n) ==
    LET excess == BitLen(n) - F64MantissaBits
        s == RoundShift(n, excess)
        odd == s.q # <<>> /\ s.q[1] % 2 = 1
        up == s.half = 1 /\ (s.sticky \/ odd)
    IN  IF excess <= 0 THEN n
        ELSE ShiftLeft(AddSmall(s.q, IF up THEN 1 ELSE 0), excess)

\* f64::ceil of x / 2^20, then `as u64`.
CeilAsU64(x) ==
    LET qr == DivPow(x, 1024, 2)
        c == AddSmall(qr.q, IF qr.r > 0 THEN 1 ELSE 0)
    IN  IF FitsU64(c) THEN c ELSE U64Max

\* gigabyte_to_mebibyte(gb): (gb as f64 * 1_000_000_000f64 / mebibyte).ceil() as u64
GigabyteToMebibyte(gb) ==
    LET product == RoundToF64(MulPow(RoundToF64(gb), 1000, 3))
    IN  CeilAsU64(product)

(***************************************************************************)
(* Timestamp::to_datetime (timestamp.rs).  A finite f64 of the model is    *)
(* +-(whole + num / 2^bits) with a small whole part, which an f64 holds    *)
(* exactly, as it does its fract() times 10^9 (num * 5^9 is below 2^53).   *)
(* The other classes are NaN, the infinities, a finite value beyond the    *)
(* i64 range ("huge", such as 1e300) and an integral value inside the i64  *)
(* range and outside the range of DateTime<Utc> ("beyond", such as 1e15).  *)
(* Seconds are [range, val]: val counts when the range is "in".            *)
(***************************************************************************)
MAX_NSECS == 999999999

F64(class, neg, whole, num, bits) ==
    [class |-> class, neg |-> neg, whole |-> whole, num |-> num, bits |-> bits]

Secs(range, val) == [range |-> range, val |-> val]

\* A number of at most two limbs, as an integer.
ToInt(n) == IF n = <<>> THEN 0 ELSE IF Len(n) = 1 THEN n[1] ELSE n[1] + LimbBase * n[2]

\* f64::floor() as i64: the cast saturates and sends NaN to 0.
FloorAsI64(t) ==
    CASE t.class = "nan" -> Secs("in", 0)
      [] t.class \in {"inf", "huge"} -> Secs(IF t.neg THEN "below" ELSE "above", 0)
      [] t.class = "beyond" -> Secs(IF t.neg THEN "before" ELSE "after", 0)
      [] t.class = "finite" ->
            Secs("in", IF ~t.neg THEN t.whole
                       ELSE IF t.num = 0 THEN -t.whole ELSE -t.whole - 1)

\* (f64::fract() * 1_000_000_000.0).round() as u32: fract() has the sign of
\* the value, round() takes a half away from zero, and the cast sends a
\* negative number and NaN to 0.
FractNanosAsU32(t) ==
    LET s == RoundShift(MulPow(FromInt(t.num), 1000, 3), t.bits)
        magnitude == ToInt(s.q) + s.half
    IN  IF t.class # "finite" \/ t.neg THEN 0 ELSE magnitude

\* Utc.timestamp_opt(secs, nsecs): Single inside the range of DateTime<Utc>,
\* None outside; never Ambiguous.
TimestampOpt(secs, nsecs) ==
    IF secs.range = "in" /\ nsecs <= MAX_NSECS
    THEN [tag |-> "Ok", secs |-> secs.val, nsecs |-> nsecs]
    ELSE [tag |-> "OutOfBounds", secs |-> 0, nsecs |-> 0]

\* Timestamp::to_datetime
ToDatetime(t) ==
    LET secs == FloorAsI64(t)
        nsecs == Min(FractNanosAsU32(t), MAX_NSECS)
    IN  TimestampOpt(secs, nsecs)

(***************************************************************************)
(* The identifier specification: one string and the calls made on it.      *)
(***************************************************************************)
NoOut == [tag |-> "None", val |-> <<>>]

NoDecoded == Failed("", "")
NoSource == SourceError("", "")
NoWire == [ok |-> FALSE, members |-> <<>>]
IdlePayload == Payload(Absent, EmptyContent, Absent, [kind |-> "absent", text |-> NoText],
                       WireHash("garbage", Sha256(NoText)),
                       [kind |-> "absent", list |-> <<>>], Absent, Absent)

MessageIdle ==
    /\ payload = IdlePayload
    /\ pc = "idle"
    /\ decoded = NoDecoded
    /\ decodedSource = NoSource
    /\ verdict = NoVerdict
    /\ stdout = <<>>
    /\ wire = NoWire

InitIdent ==
    /\ input \in InputStrings
    /\ op = "none"
    /\ out = NoOut
    /\ MessageIdle
    /\ WsIdle

CallItemHashTryFrom ==
    /\ op = "none"
    /\ op' = "ItemHash"
    /\ out' = ItemHashTryFrom(input)
    /\ UNCHANGED <<input, messageVars, wsVars>>

CallAlephItemHashTryFrom ==
    /\ op = "none"
    /\ op' = "AlephItemHash"
    /\ out' = AlephItemHashTryFrom(input)
    /\ UNCHANGED <<input, messageVars, wsVars>>

CallCidTryFrom ==
    /\ op = "none"
    /\ op' = "Cid"
    /\ out' = CidTryFrom(input)
    /\ UNCHANGED <<input, messageVars, wsVars>>

\* to_string() of a parsed ItemHash.
DisplayItemHash ==
    /\ op = "ItemHash"
    /\ out.tag \in {"Native", "Ipfs"}
    /\ op' = "Display"
    /\ out' = [tag |-> "Shown", val |-> ItemHashDisplay(out)]
    /\ UNCHANGED <<input, messageVars, wsVars>>

\* ItemHash::try_from of the displayed form.
ReparseDisplayed ==
    /\ op = "Display"
    /\ op' = "Reparse"
    /\ out' = ItemHashTryFrom(out.val)
    /\ UNCHANGED <<input, messageVars, wsVars>>

\* serde_json::to_value of a recognised Cid.
SerializeCid ==
    /\ op = "Cid"
    /\ out.tag \in {"V0", "V1"}
    /\ op' = "CidSerialized"
    /\ out' = [tag |-> "Json", val |-> CidSerialize(out)]
    /\ UNCHANGED <<input, messageVars, wsVars>>

\* serde_json::from_value::<Cid> of that JSON value.
DeserializeCid ==
    /\ op = "CidSerialized"
    /\ op' = "CidDeserialized"
    /\ out' = CidDeserialize(out.val)
    /\ UNCHANGED <<input, messageVars, wsVars>>

\* serde_json::from_value::<Cid> of the input as a JSON string, or of a
\* JSON number.
DeserializeCidFromJson ==
    /\ op = "none"
    /\ \E j \in {JsonString(input), JsonNumber} :
          /\ op' = IF j.kind = "str" THEN "CidFromString" ELSE "CidFromNumber"
          /\ out' = CidDeserialize(j)
    /\ UNCHANGED <<input, messageVars, wsVars>>

\* CidV0::new(input), CidV0::try_from(input)
CallCidV0New ==
    /\ op = "none"
    /\ op' = "CidV0"
    /\ out' = CidV0New(input)
    /\ UNCHANGED <<input, messageVars, wsVars>>

\* serde_json::from_value::<CidV0> of the input as a JSON string, or of a
\* JSON number.
DeserializeCidV0FromJson ==
    /\ op = "none"
    /\ \E j \in {JsonString(input), JsonNumber} :
          /\ op' = IF j.kind = "str" THEN "CidV0FromString" ELSE "CidV0FromNumber"
          /\ out' = CidV0Deserialize(j)
    /\ UNCHANGED <<input, messageVars, wsVars>>

\* Cid::from of a CidV0 that was constructed or deserialized.
CallCidFromCidV0 ==
    /\ op \in {"CidV0", "CidV0FromString"}
    /\ out.tag = "V0"
    /\ op' = "CidFromCidV0"
    /\ out' = CidFromCidV0(out)
    /\ UNCHANGED <<input, messageVars, wsVars>>

NextIdent ==
    \/ CallCidV0New
    \/ DeserializeCidV0FromJson
    \/ CallCidFromCidV0
    \/ CallItemHashTryFrom
    \/ CallAlephItemHashTryFrom
    \/ CallCidTryFrom
    \/ DisplayItemHash
    \/ ReparseDisplayed
    \/ SerializeCid
    \/ DeserializeCid
    \/ DeserializeCidFromJson

SpecIdent == InitIdent /\ [][NextIdent]_vars

(***************************************************************************)
(* The message specification: a payload is decoded; a decoded message is   *)
(* verified or serialized.  The content source of the payload can also be  *)
(* decoded on its own.                                                     *)
(***************************************************************************)
Init ==
    /\ payload \in Payloads
    /\ pc = "start"
    /\ decoded = NoDecoded
    /\ decodedSource = NoSource
    /\ verdict = NoVerdict
    /\ stdout = <<>>
    /\ wire = NoWire
    /\ input = <<>>
    /\ op = "idle"
    /\ out = NoOut
    /\ WsIdle

DecodeMessage ==
    /\ pc = "start"
    /\ decoded' = MessageDeserialize(payload)
    /\ pc' = IF decoded'.ok THEN "decoded" ELSE "rejected"
    /\ UNCHANGED <<payload, decodedSource, verdict, stdout, wire, identVars, wsVars>>

DecodeContentSource ==
    /\ pc = "start"
    /\ decodedSource' = ContentSourceDeserialize(payload.item_type, payload.item_content)
    /\ pc' = "source"
    /\ UNCHANGED <<payload, decoded, verdict, stdout, wire, identVars, wsVars>>

CallVerifyItemHash ==
    /\ pc = "decoded"
    /\ verdict' = VerifyItemHash(decoded.msg)
    /\ stdout' = stdout \o ComputeItemHash(decoded.msg).printed
    /\ pc' = "verified"
    /\ UNCHANGED <<payload, decoded, decodedSource, wire, identVars, wsVars>>

CallSerialize ==
    /\ pc = "decoded"
    /\ wire' = MessageSerialize(decoded.msg)
    /\ pc' = "serialized"
    /\ UNCHANGED <<payload, decoded, decodedSource, verdict, stdout, identVars, wsVars>>

Next ==
    \/ DecodeMessage
    \/ DecodeContentSource
    \/ CallVerifyItemHash
    \/ CallSerialize

Spec == Init /\ [][Next]_vars

(***************************************************************************)
(* The websocket specification: run_ws_loop from its first read, with the  *)
(* server choosing the frames and the outcome of every connect, and the    *)
(* consumer receiving items or dropping the receiver.                      *)
(***************************************************************************)
InitWs ==
    /\ wsPc = "read"
    /\ backoff_ms = INITIAL_BACKOFF_MS
    /\ rx = "alive"
    /\ queue = <<>>
    /\ pending = NoPending
    /\ waited = 0
    /\ attempts = 0
    /\ failures = 0
    /\ framesRead = 0
    /\ itemsReceived = 0
    /\ input = <<>>
    /\ op = "idle"
    /\ out = NoOut
    /\ MessageIdle

\* backoff_ms = (backoff_ms * 2).min(MAX_BACKOFF_MS), with another step.
NextBackoffByStep(b) == Min(b + INITIAL_BACKOFF_MS, MAX_BACKOFF_MS)

\* backoff_ms = (backoff_ms * 2).min(MAX_BACKOFF_MS)
NextBackoff(b) == Min(b * 2, MAX_BACKOFF_MS)

\* serde_json::from_str(&text) and the match on its result.
ParseItem(frame) == IF frame = "valid" THEN "Ok(msg)" ELSE "Err(parse)"

\* Ok(WsMessage::Text(text)): the backoff is reset, the text is parsed and
\* the result is handed to tx.send.
ReadText ==
    /\ wsPc = "read"
    /\ \E frame \in {"valid", "invalid"} :
          pending' = Item(ParseItem(frame), "text", framesRead, frame)
    /\ framesRead' = (framesRead + 1) % FrameIds
    /\ backoff_ms' = INITIAL_BACKOFF_MS
    /\ attempts' = 0
    /\ failures' = 0
    /\ wsPc' = "send"
    /\ UNCHANGED <<rx, queue, waited, itemsReceived, identVars, messageVars>>

\* Ok(WsMessage::Close(_)), or the end of the stream (None).
ReadClose ==
    /\ wsPc = "read"
    /\ wsPc' = "sleep"
    /\ UNCHANGED <<backoff_ms, rx, queue, pending, waited, attempts, failures,
                   framesRead, itemsReceived, identVars, messageVars>>

\* Ok(_): a ping, pong or binary frame is ignored.
ReadOther ==
    /\ wsPc = "read"
    /\ UNCHANGED vars

\* Err(e): a connection-error item is handed to tx.send.
ReadError ==
    /\ wsPc = "read"
    /\ pending' = Item("Err(connection)", "error", 0, "")
    /\ wsPc' = "send"
    /\ UNCHANGED <<backoff_ms, rx, queue, waited, attempts, failures,
                   framesRead, itemsReceived, identVars, messageVars>>

\* The same, reading again right after the item of a failed reconnection.
AfterSendReadingAgain(from, sent) ==
    CASE from = "text" -> IF sent THEN "read" ELSE "terminated"
      [] from = "error" -> "sleep"
      [] from = "reconnect" -> IF sent THEN "read" ELSE "terminated"

\* Where the loop goes after tx.send(item).await, by the place of the send
\* and its result: only the send of the read-error branch ignores the result.
AfterSend(from, sent) ==
    CASE from = "text" -> IF sent THEN "read" ELSE "terminated"
      [] from = "error" -> "sleep"
      [] from = "reconnect" -> IF sent THEN "sleep" ELSE "terminated"

\* tx.send(item).await that gives up the item when the channel is full.
SendDroppingWhenFull ==
    /\ wsPc = "send"
    /\ \/ /\ rx = "dropped"
          /\ wsPc' = AfterSend(pending.from, FALSE)
          /\ queue' = queue
       \/ /\ rx = "alive"
          /\ wsPc' = AfterSend(pending.from, TRUE)
          /\ queue' = IF Len(queue) < QueueSlots THEN Append(queue, pending) ELSE queue
    /\ pending' = NoPending
    /\ UNCHANGED <<backoff_ms, rx, waited, attempts, failures, framesRead,
                   itemsReceived, identVars, messageVars>>

\* tx.send(item).await: an error when the receiver is gone, otherwise the
\* item is queued as soon as there is a free slot.
Send ==
    /\ wsPc = "send"
    /\ \/ /\ rx = "dropped"
          /\ wsPc' = AfterSend(pending.from, FALSE)
          /\ queue' = queue
       \/ /\ rx = "alive"
          /\ Len(queue) < QueueSlots
          /\ wsPc' = AfterSend(pending.from, TRUE)
          /\ queue' = Append(queue, pending)
    /\ pending' = NoPending
    /\ UNCHANGED <<backoff_ms, rx, waited, attempts, failures, framesRead,
                   itemsReceived, identVars, messageVars>>

\* tokio::time::sleep(backoff_ms), then the doubling.
Sleep ==
    /\ wsPc = "sleep"
    /\ waited' = backoff_ms
    /\ backoff_ms' = NextBackoff(backoff_ms)
    /\ attempts' = Min(attempts + 1, MaxCount)
    /\ wsPc' = "connect"
    /\ UNCHANGED <<rx, queue, pending, failures, framesRead, itemsReceived,
                   identVars, messageVars>>

\* connect_async: Ok((new_stream, _)).
ConnectOk ==
    /\ wsPc = "connect"
    /\ wsPc' = "read"
    /\ UNCHANGED <<backoff_ms, rx, queue, pending, waited, attempts, failures,
                   framesRead, itemsReceived, identVars, messageVars>>

\* connect_async: Err(e), a reconnection-failed item is handed to tx.send.
ConnectFail ==
    /\ wsPc = "connect"
    /\ failures' = Min(failures + 1, MaxCount)
    /\ pending' = Item("Err(reconnection)", "reconnect", 0, "")
    /\ wsPc' = "send"
    /\ UNCHANGED <<backoff_ms, rx, queue, waited, attempts, framesRead,
                   itemsReceived, identVars, messageVars>>

\* The consumer: rx.recv().await takes the oldest item.
Receive ==
    /\ rx = "alive"
    /\ queue # <<>>
    /\ queue' = Tail(queue)
    /\ itemsReceived' =
           IF Head(queue).from = "text" THEN (itemsReceived + 1) % FrameIds
           ELSE itemsReceived
    /\ UNCHANGED <<wsPc, backoff_ms, rx, pending, waited, attempts, failures,
                   framesRead, identVars, messageVars>>

\* The consumer drops the receiver, and the queued items with it.
DropReceiver ==
    /\ rx = "alive"
    /\ rx' = "dropped"
    /\ queue' = <<>>
    /\ UNCHANGED <<wsPc, backoff_ms, pending, waited, attempts, failures,
                   framesRead, itemsReceived, identVars, messageVars>>

LoopStep ==
    \/ ReadText
    \/ ReadClose
    \/ ReadOther
    \/ ReadError
    \/ Send
    \/ Sleep
    \/ ConnectOk
    \/ ConnectFail

NextWs ==
    \/ LoopStep
    \/ Receive
    \/ DropReceiver

SpecWs == InitWs /\ [][NextWs]_vars

\* The spawned task is polled whenever it can make progress; nothing is
\* assumed of the server or of the consumer.
SpecWsFair == SpecWs /\ WF_vars(LoopStep)

(***************************************************************************)
(* The status specification: one MessageWithStatus value, one call.        *)
(***************************************************************************)
InitStatus ==
    /\ input \in MessageWithStatusValues
    /\ op = "none"
    /\ out = NoOut
    /\ MessageIdle
    /\ WsIdle

CallStatus ==
    /\ op = "none"
    /\ op' = "status"
    /\ out' = MessageWithStatusStatus(input)
    /\ UNCHANGED <<input, messageVars, wsVars>>

NextStatus == CallStatus

SpecStatus == InitStatus /\ [][NextStatus]_vars

(***************************************************************************)
(* The memory specification: a count of units of a source unit, a target   *)
(* unit and a rounding mode; one conversion, and to_exact back from the    *)
(* bytes of to_bytes.                                                      *)
(***************************************************************************)
MaxUnits == 3

PowerOfTwo(k) ==
    [i \in 1..((k \div 16) + 1) |-> IF i = (k \div 16) + 1 THEN 2^(k % 16) ELSE 0]

\* n - 1, for n > 0
RECURSIVE Pred(_)
Pred(n) ==
    IF Head(n) > 0 THEN Norm(<<Head(n) - 1>> \o Tail(n))
    ELSE <<LimbBase - 1>> \o Pred(Tail(n))

Scales == {1, 500, 512, 1000, 1024, 1280, 524288, 1048576}

\* Small counts around the halves, quarters and multiples of the unit
\* sizes, and the counts around the largest one whose bytes fit in a u64,
\* for each unit.
UnitCounts ==
    { FromInt(a * scale + c) : a \in 0..MaxUnits, scale \in Scales, c \in {0, 1} }
    \cup { PowerOfTwo(k) : k \in {34, 44, 54} }
    \cup { Pred(PowerOfTwo(k)) : k \in {34, 44, 54, 64} }

MemoryInputs ==
    [units : UnitCounts, S : MemoryUnits, T : MemoryUnits, mode : Roundings]

InitMemory ==
    /\ input \in MemoryInputs
    /\ op = "none"
    /\ out = NoOut
    /\ MessageIdle
    /\ WsIdle

CallToBytes ==
    /\ op = "none"
    /\ op' = "to_bytes"
    /\ out' = ToBytes(input.units, input.S)
    /\ UNCHANGED <<input, messageVars, wsVars>>

CallToExact ==
    /\ op = "none"
    /\ op' = "to_exact"
    /\ out' = ToExact(input.units, input.S, input.T)
    /\ UNCHANGED <<input, messageVars, wsVars>>

CallToRounded ==
    /\ op = "none"
    /\ op' = "to_rounded"
    /\ out' = ToRounded(input.units, input.S, input.T, input.mode)
    /\ UNCHANGED <<input, messageVars, wsVars>>

\* u.to_bytes().to_exact::<S>(): to_exact of the Bytes that to_bytes gave,
\* back to the source unit.
CallToExactOfBytes ==
    /\ op = "to_bytes"
    /\ out.tag = "Ok"
    /\ op' = "to_bytes.to_exact"
    /\ out' = ToExact(out.val, Bytes, input.S)
    /\ UNCHANGED <<input, messageVars, wsVars>>

\* T::try_from(Bytes(units)), for a unit T other than Bytes.
CallTryFromBytes ==
    /\ op = "none"
    /\ input.T # Bytes
    /\ op' = "try_from_bytes"
    /\ out' = TryFromBytes(input.units, input.T)
    /\ UNCHANGED <<input, messageVars, wsVars>>

\* gigabyte_to_mebibyte(units)
CallGigabyteToMebibyte ==
    /\ op = "none"
    /\ op' = "gigabyte_to_mebibyte"
    /\ out' = [tag |-> "u64", val |-> GigabyteToMebibyte(input.units)]
    /\ UNCHANGED <<input, messageVars, wsVars>>

NextMemory ==
    \/ CallGigabyteToMebibyte
    \/ CallToBytes
    \/ CallToExact
    \/ CallToRounded
    \/ CallToExactOfBytes
    \/ CallTryFromBytes

SpecMemory == InitMemory /\ [][NextMemory]_vars

(***************************************************************************)
(* The timestamp specification: one Timestamp, one call of to_datetime.    *)
(***************************************************************************)
MaxWhole == 3

Fractions ==
    { <<0, 1>>, <<1, 1>>, <<1, 2>>, <<3, 2>>, <<1, 30>>, <<1, 31>>, <<2147483647, 31>> }

TimestampInputs ==
    { F64("finite", neg, whole, f[1], f[2]) :
          neg \in BOOLEAN, whole \in 0..MaxWhole, f \in Fractions }
    \cup { F64(class, neg, 0, 0, 1) : class \in {"inf", "huge", "beyond"}, neg \in BOOLEAN }
    \cup { F64("nan", FALSE, 0, 0, 1) }

InitTimestamp ==
    /\ input \in TimestampInputs
    /\ op = "none"
    /\ out = NoOut
    /\ MessageIdle
    /\ WsIdle

CallToDatetime ==
    /\ op = "none"
    /\ op' = "to_datetime"
    /\ out' = ToDatetime(input)
    /\ UNCHANGED <<input, messageVars, wsVars>>

NextTimestamp == CallToDatetime

SpecTimestamp == InitTimestamp /\ [][NextTimestamp]_vars

(***************************************************************************)
(* Claims about verify_item_hash.                                          *)
(***************************************************************************)
Msg == decoded.msg
Source == Msg.content_source.source

\* The hash verify_item_hash computed, as its result shows it: the claimed
\* hash when the result is Ok, the actual field of the error otherwise.
ShownHash == IF verdict.result = "Ok" THEN Msg.item_hash ELSE verdict.actual

\* C1: verify_item_hash hashes the bytes chosen by content_source: the stored
\* item_content with the native digest for Inline, the re-serialized content
\* with the native digest for Storage, and the re-serialized content with the
\* CID V0 rule (a Cid, not a native hash) for Ipfs.
C1_HashedBytesBySource ==
    (pc = "verified" /\ verdict.result # "SerializationError") =>
        CASE Source = "Inline" ->
                ShownHash = NativeHash(Sha256(Msg.content_source.item_content))
          [] Source = "Storage" ->
                ShownHash = NativeHash(Sha256(MessageContentToJson(Msg.content).text))
          [] Source = "Ipfs" ->
                /\ ShownHash.variant = "Ipfs"
                /\ ShownHash.version = "V0"
                /\ ShownHash.digest = Sha256(MessageContentToJson(Msg.content).text)

C1_Witness ==
    /\ pc = "verified"
    /\ Source = "Ipfs"
    /\ verdict.result = "Ok"
    /\ Msg.item_hash.version = "V0"

SameHash(a, b) ==
    a.variant = b.variant /\ a.version = b.version /\ a.digest = b.digest

\* C2: verify_item_hash returns Ok exactly when the computed hash and the
\* claimed item_hash have the same variant and the same bytes; on a mismatch
\* it returns ItemHashVerificationFailed with expected = the claimed hash and
\* actual = the computed hash.
C2_OkIffStructurallyEqual ==
    pc = "verified" =>
        LET c == ComputeItemHash(Msg)
        IN  /\ verdict.result = "Ok" <=> (c.ok /\ SameHash(c.hash, Msg.item_hash))
            /\ (c.ok /\ ~SameHash(c.hash, Msg.item_hash)) =>
                   /\ verdict.result = "ItemHashVerificationFailed"
                   /\ verdict.expected = Msg.item_hash
                   /\ verdict.actual = c.hash

C2_Witness ==
    /\ pc = "verified"
    /\ verdict.result = "ItemHashVerificationFailed"
    /\ verdict.expected.digest = verdict.actual.digest
    /\ verdict.expected.variant # verdict.actual.variant

\* C3: verify_item_hash has no side effect: the message is what the decoder
\* produced and nothing has been written to standard output.
C3_NoSideEffect ==
    pc = "verified" =>
        /\ decoded = MessageDeserialize(payload)
        /\ stdout = <<>>

(***************************************************************************)
(* Claims about identifier recognition.                                    *)
(***************************************************************************)
NativeAccepts(s) == AlephItemHashTryFrom(s).tag = "Ok"
CidAccepts(s) == CidTryFrom(s).tag \in {"V0", "V1"}

\* C4: ItemHash::try_from gives Native when the native decode succeeds,
\* otherwise Ipfs with the recognised Cid when Cid recognition succeeds,
\* otherwise UnknownHashType carrying the input; every string yields one of
\* these.
C4_TryOrderTotal ==
    op = "ItemHash" =>
        /\ out.tag \in {"Native", "Ipfs", "UnknownHashType"}
        /\ out.tag = "Native" <=> NativeAccepts(input)
        /\ out.tag = "Ipfs" <=> (~NativeAccepts(input) /\ CidAccepts(input))
        /\ out.tag = "Ipfs" => out.val = CidTryFrom(input)
        /\ out.tag = "UnknownHashType" => out.val = input

\* C5: no string is accepted both by the native recogniser and by
\* the Cid recogniser.
C5_NeverAmbiguous ==
    (op = "Cid" /\ out.tag \in {"V0", "V1"}) => ~NativeAccepts(input)

(***************************************************************************)
(* Claims about decoding.                                                  *)
(***************************************************************************)
\* C6: the message_type of a decoded message and the variant of its content
\* are the same, and are the type the tag of the payload names.
C6_TagMatchesVariant ==
    decoded.ok =>
        /\ Msg.content.variant = Msg.message_type
        /\ payload.type = J("str", MessageTypeTag(Msg.message_type))

C6_Witness ==
    /\ decoded.ok
    /\ Msg.message_type = "Post"
    /\ AsAggregate(payload.content).ok

\* What a content payload must hold to be a payload of the type: the
\* members the record type requires, of a JSON kind it reads.
HasKind(c, k, kinds) == c[k].kind \in kinds

Satisfies(type, c) ==
    CASE type = "Aggregate" ->
            HasKind(c, "key", {"str", "obj"}) /\ HasKind(c, "content", {"obj"})
      [] type = "Forget" -> HasKind(c, "hashes", {"arr"})
      [] type = "Instance" ->
            /\ HasKind(c, "allow_amend", {"bool"})
            /\ \A k \in {"resources", "environment", "rootfs"} : HasKind(c, k, {"obj"})
      [] type = "Post" -> HasKind(c, "ref", {"str"}) \/ HasKind(c, "type", {"str"})
      [] type = "Program" ->
            /\ HasKind(c, "allow_amend", {"bool"})
            /\ \A k \in {"resources", "code", "runtime", "environment", "on"} :
                   HasKind(c, k, {"obj"})
      [] type = "Store" ->
            HasKind(c, "item_type", {"str"}) /\ HasKind(c, "item_hash", {"str"})

TaggedType == MessageTypeDeserialize(payload.type).val

\* C7: a payload whose content does not satisfy the type its tag selects is
\* rejected, also when the content satisfies another type; a payload tagged
\* AGGREGATE whose content lacks only the key member is rejected for the
\* missing field key.
C7_NoFallbackToSibling ==
    (pc \in {"decoded", "rejected"} /\ MessageTypeDeserialize(payload.type).ok) =>
        /\ ~Satisfies(TaggedType, payload.content) => pc = "rejected"
        /\ ( /\ TaggedType = "Aggregate"
             /\ payload.content["key"].kind = "absent"
             /\ Satisfies("Aggregate", With(payload.content, "key", J("str", "a")))
             /\ MessageDeserialize(With(payload, "content",
                    With(payload.content, "key", J("str", "a")))).ok )
           => (decoded.err = "missing field" /\ decoded.what = "key")

C7_Witness ==
    /\ pc = "rejected"
    /\ payload.type = J("str", "AGGREGATE")
    /\ payload.content["key"].kind = "absent"
    /\ Satisfies("Post", payload.content)
    /\ decoded.what = "key"

\* C8 as stated: inline with an item_content string gives Inline with that
\* string; inline without item_content is a missing-field error; storage
\* gives Storage and ipfs gives Ipfs; another item_type is an
\* unknown-variant error; an absent item_type is an error.
C8_SourceByItemTypeAlone ==
    pc = "source" =>
        LET t == payload.item_type
            c == payload.item_content
            r == decodedSource
        IN  /\ (t = J("str", "inline") /\ c.kind = "str") =>
                   (r.ok /\ r.val = ContentSource("Inline", c.text))
            /\ (t = J("str", "inline") /\ c.kind \in {"absent", "null"}) =>
                   (~r.ok /\ r.err = "missing field")
            /\ t = J("str", "storage") => (r.ok /\ r.val.source = "Storage")
            /\ t = J("str", "ipfs") => (r.ok /\ r.val.source = "Ipfs")
            /\ (t.kind = "str" /\ t.v \notin {"inline", "storage", "ipfs"}) =>
                   (~r.ok /\ r.err = "unknown variant")
            /\ t.kind = "absent" => ~r.ok

\* C8 as amended: the same, for an item_content that is a string, null or
\* absent; an item_content of another JSON kind, like an item_type that is
\* not a string, is an invalid-type error whatever the other member is.
C8_SourceByItemTypeAndContentKind ==
    pc = "source" =>
        LET t == payload.item_type
            c == payload.item_content
            r == decodedSource
            readable == c.kind \in {"str", "null", "absent"}
        IN  /\ (t = J("str", "inline") /\ c.kind = "str") =>
                   (r.ok /\ r.val = ContentSource("Inline", c.text))
            /\ (t = J("str", "inline") /\ c.kind \in {"absent", "null"}) =>
                   (~r.ok /\ r.err = "missing field" /\ r.what = "item_content")
            /\ (t = J("str", "storage") /\ readable) =>
                   (r.ok /\ r.val = ContentSource("Storage", NoText))
            /\ (t = J("str", "ipfs") /\ readable) =>
                   (r.ok /\ r.val = ContentSource("Ipfs", NoText))
            /\ (t.kind = "str" /\ t.v \notin {"inline", "storage", "ipfs"} /\ readable) =>
                   (~r.ok /\ r.err = "unknown variant")
            /\ t.kind = "absent" => ~r.ok
            /\ (~readable \/ t.kind \notin {"str", "absent"}) =>
                   (~r.ok /\ r.err = "invalid type")

C8_Witness ==
    /\ pc = "source"
    /\ payload.item_type = J("str", "storage")
    /\ payload.item_content.kind = "num"
    /\ ~decodedSource.ok

\* C9: a payload without a confirmations member decodes to an empty list,
\* and confirmed() is true exactly when the payload holds a non-empty
\* confirmations list, whatever its confirmed member says.
C9_ConfirmedIffListNonEmpty ==
    decoded.ok =>
        /\ payload.confirmations.kind = "absent" => Msg.confirmations = <<>>
        /\ Confirmed(Msg) <=>
               (payload.confirmations.kind = "arr" /\ Len(payload.confirmations.list) > 0)

C9_Witness ==
    /\ decoded.ok
    /\ payload.confirmed = J("bool", "true")
    /\ payload.confirmations.kind = "absent"
    /\ ~Confirmed(Msg)

Emits(k) == \E i \in DOMAIN wire.members : wire.members[i][1] = k
Emitted(k) == wire.members[CHOOSE i \in DOMAIN wire.members : wire.members[i][1] = k][2]

SourceMembersEmitted ==
    /\ Emits("type") /\ Emitted("type") = J("str", MessageTypeTag(Msg.message_type))
    /\ Emitted("type").v \in
           {"AGGREGATE", "FORGET", "INSTANCE", "POST", "PROGRAM", "STORE"}
    /\ Emits("item_type")
    /\ Emitted("item_type").v = payload.item_type.v
    /\ Emits("item_content")
    /\ Emitted("item_content") =
           IF Source = "Inline"
           THEN [kind |-> "str", text |-> Msg.content_source.item_content]
           ELSE [kind |-> "null", text |-> NoText]

\* C10: confirmations and confirmed are written only for a
\* non-empty confirmations list, channel only when there is a channel; the
\* item_type / item_content pair comes from the content source and the type
\* is written in upper case.
C10_ConditionalMembers ==
    (pc = "serialized" /\ wire.ok) =>
        /\ Emits("confirmations") => Confirmed(Msg)
        /\ Emits("confirmed") => Confirmed(Msg)
        /\ Emits("channel") => Msg.channel.kind = "str"
        /\ SourceMembersEmitted

(***************************************************************************)
(* Claims about Cid, AlephItemHash and the display forms.                  *)
(***************************************************************************)
MultibaseFirstBytes == {"b", "B", "z", "f", "F", "m", "M", "u", "U"}

\* C11: Cid::try_from gives EmptyString for the empty string; otherwise V0
\* for a string of 46 bytes starting with "Qm"; otherwise V1 for a string
\* longer than one byte whose first character is a multibase prefix;
\* InvalidFormat for every other string; and it stores the input verbatim.
C11_CidClassification ==
    op = "Cid" =>
        LET v0 == Len(input) = 46 /\ input[1] = "Q" /\ input[2] = "m"
            v1 == Len(input) > 1 /\ input[1] \in MultibaseFirstBytes
        IN  /\ out.tag = CASE Len(input) = 0 -> "EmptyString"
                           [] Len(input) > 0 /\ v0 -> "V0"
                           [] Len(input) > 0 /\ ~v0 /\ v1 -> "V1"
                           [] OTHER -> "InvalidFormat"
            /\ out.tag \in {"V0", "V1"} => out.val = input

C11_Witness ==
    /\ op = "Cid"
    /\ out.tag = "InvalidFormat"
    /\ input = <<"b">>

AllHexDigits(s) == \A i \in DOMAIN s : s[i] \in HexDigitChars

\* C12: AlephItemHash::try_from succeeds exactly on the strings of 64 hex
\* digits, fails with InvalidLength for another length and with
\* InvalidHexDigit for a string of length 64 that is not all hex digits.
C12_ExactlyHex64 ==
    op = "AlephItemHash" =>
        /\ out.tag = "Ok" <=> (Len(input) = 64 /\ AllHexDigits(input))
        /\ Len(input) # 64 => out.tag = "InvalidLength"
        /\ (Len(input) = 64 /\ ~AllHexDigits(input)) => out.tag = "InvalidHexDigit"

LowerHexChars == {"0", "1", "2", "3", "4", "5", "6", "7", "8", "9",
                  "a", "b", "c", "d", "e", "f"}
IsLowerHex64(s) == Len(s) = 64 /\ \A i \in DOMAIN s : s[i] \in LowerHexChars

\* C13: displaying the ItemHash parsed from a string of 64 lower-case hex
\* characters gives the string back, and parsing the display form of a
\* native hash gives the hash back.
C13_NativeRoundTrip ==
    /\ (op \in {"ItemHash", "Display", "Reparse"} /\ IsLowerHex64(input)) =>
           /\ op = "ItemHash" => out.tag = "Native"
           /\ op = "Display" => out.val = input
    /\ (op = "Reparse" /\ AlephItemHashTryFrom(input).tag = "Ok") =>
           /\ out.tag = "Native"
           /\ out.val = AlephItemHashTryFrom(input).val

C13_Witness ==
    /\ op = "Reparse"
    /\ IsLowerHex64(input)
    /\ input[1] = "b"
    /\ out.tag = "Native"
    /\ out.val[1] = 176

\* C14: AlephItemHash::try_from, Cid::try_from and ItemHash::try_from return
\* a value or a typed error on every string: none of them panics.
C14_NeverPanics ==
    op \in {"AlephItemHash", "Cid", "ItemHash"} => out.tag # "Panic"

\* C15: deserializing the serialization of a recognised Cid gives the same
\* Cid, of the same version, and deserializing a string that Cid::try_from
\* rejects fails.
C15_CidSerdeRoundTrip ==
    /\ op = "CidSerialized" => out.val = [kind |-> "str", s |-> input]
    /\ op = "CidDeserialized" =>
           /\ out.tag \in {"V0", "V1"}
           /\ out.tag = "V0" <=> (Len(input) = 46 /\ input[1] = "Q" /\ input[2] = "m")
           /\ out.val = input
    /\ op = "CidFromString" =>
           (out.tag \in {"V0", "V1"} <=> CidTryFrom(input).tag \in {"V0", "V1"})

C15_Witness ==
    /\ op = "CidDeserialized"
    /\ out.tag = "V0"
    /\ Len(input) = 46

(***************************************************************************)
(* Claims about run_ws_loop.                                               *)
(***************************************************************************)
\* C16 as stated: the wait before a reconnection attempt is 100 ms doubled
\* once per failed reconnection attempt since the last received message,
\* and at most 30000 ms.
C16_DoublesPerFailure ==
    wsPc = "connect" => waited = Min(100 * 2^failures, 30000)

\* C16 as amended: the wait before a reconnection attempt is 100 ms doubled
\* once per reconnection attempt made, failed or not, since the last text
\* frame (or the start), and at most 30000 ms; a text frame resets the
\* backoff to 100 ms.
C16_DoublesPerAttempt ==
    /\ wsPc # "idle" => backoff_ms = Min(100 * 2^attempts, 30000)
    /\ wsPc = "connect" => waited = Min(100 * 2^(attempts - 1), 30000)
    /\ (wsPc = "send" /\ pending.from = "text") => backoff_ms = 100

C16_Witness ==
    /\ wsPc = "connect"
    /\ waited = 200
    /\ failures = 0

\* C17: once the receiver is dropped, run_ws_loop eventually terminates.
C17_DroppedTerminates == (rx = "dropped") ~> (wsPc = "terminated")

\* The items that were handed to tx.send and not received yet, oldest
\* first, and the ones among them that were made of a text frame.
InFlight == queue \o (IF pending = NoPending THEN <<>> ELSE <<pending>>)
IsTextItem(x) == x.from = "text"
TextItemsInFlight == SelectSeq(InFlight, IsTextItem)

\* C24: while the receiver is alive, the items of text frames that are not
\* received yet are those of the text frames read since the last received
\* one, one item per frame and in the order of reading, whether or not the
\* channel is full; the item of a valid frame is Ok(message) and the one of
\* an invalid frame is a parse error, after which the loop reads again; and
\* a step that stays at the read (a ping, pong or binary frame) hands no
\* item over.
C24_OneItemPerTextFrame ==
    /\ [](rx = "alive" =>
            /\ \A i \in DOMAIN TextItemsInFlight :
                   /\ TextItemsInFlight[i].n = (itemsReceived + i - 1) % FrameIds
                   /\ TextItemsInFlight[i].item = ParseItem(TextItemsInFlight[i].frame)
            /\ (itemsReceived + Len(TextItemsInFlight)) % FrameIds = framesRead
            /\ Len(queue) <= QueueSlots)
    /\ [][/\ (rx = "alive" /\ wsPc = "send" /\ pending.from = "text" /\ wsPc' # wsPc)
               => (wsPc' = "read" /\ queue' = Append(queue, pending))
          /\ (wsPc = "read" /\ wsPc' = "read")
               => (pending' = pending /\ framesRead' = framesRead
                   /\ Len(queue') <= Len(queue))]_vars

C24_Witness ==
    /\ rx = "alive"
    /\ wsPc = "send"
    /\ pending.from = "text"
    /\ Len(queue) = QueueSlots
    /\ \A i \in DOMAIN queue : queue[i].from = "text"
    /\ queue[1].item = "Err(parse)"
    /\ pending.item = "Ok(msg)"
    /\ itemsReceived > 0

\* The steps of the loop around a disconnection that do not depend on the
\* receiver: a Close frame or the end of the stream goes to the wait and
\* hands no item over; a read error hands over one connection-error item;
\* a wait is followed by a connect attempt; a failed attempt hands over one
\* reconnection-failed item; and the read is entered only from a connect
\* that succeeded or after the item of a text frame.
DisconnectionSteps ==
    /\ (wsPc = "read" /\ wsPc' = "sleep") => UNCHANGED <<queue, pending>>
    /\ (wsPc = "read" /\ wsPc' = "send" /\ pending'.from # "text")
           => pending' = Item("Err(connection)", "error", 0, "")
    /\ (wsPc = "sleep" /\ wsPc' # wsPc) => wsPc' = "connect"
    /\ (wsPc = "connect" /\ wsPc' # wsPc)
           => \/ wsPc' = "read" /\ UNCHANGED <<queue, pending>>
              \/ wsPc' = "send" /\ pending' = Item("Err(reconnection)", "reconnect", 0, "")
    /\ (wsPc' = "read" /\ wsPc # "read")
           => (wsPc = "connect" \/ (wsPc = "send" /\ pending.from = "text"))

\* C25 as stated: moreover the connection-error item is emitted and the
\* wait follows, and the reconnection-failed item is emitted and another
\* wait follows, whatever the state of the receiver.
C25_ReconnectsBeforeReading ==
    [][/\ DisconnectionSteps
       /\ (wsPc = "send" /\ pending.from \in {"error", "reconnect"} /\ wsPc' # wsPc)
              => (wsPc' = "sleep" /\ queue' = Append(queue, pending))]_vars

\* C25 as amended: while the receiver is alive the connection-error item
\* and the reconnection-failed item are emitted and the wait follows; with
\* the receiver dropped no item is emitted, the wait still follows a read
\* error, and the loop terminates after a failed reconnection attempt.
C25_ReconnectsWhileReceiverAlive ==
    [][/\ DisconnectionSteps
       /\ (wsPc = "send" /\ pending.from \in {"error", "reconnect"} /\ wsPc' # wsPc)
              => IF rx = "alive"
                 THEN wsPc' = "sleep" /\ queue' = Append(queue, pending)
                 ELSE /\ queue' = queue
                      /\ wsPc' = IF pending.from = "error" THEN "sleep" ELSE "terminated"]_vars

C25_Witness ==
    /\ wsPc = "connect"
    /\ rx = "alive"
    /\ attempts = 2
    /\ failures = 1
    /\ Len(queue) = 2
    /\ queue[1].item = "Err(connection)"
    /\ queue[2].item = "Err(reconnection)"

\* The values 100 * 2^k up to the cap.
RECURSIVE Doublings(_)
Doublings(b) == IF b > MAX_BACKOFF_MS THEN {} ELSE {b} \cup Doublings(b * 2)

\* C26: backoff_ms is between 100 and 30000 and is 30000 or 100 times a
\* power of two; after a wait and before a reset the next wait is at least
\* the last one; and twice the backoff fits in a u64.
C26_BackoffInvariant ==
    wsPc # "idle" =>
        /\ INITIAL_BACKOFF_MS <= backoff_ms /\ backoff_ms <= MAX_BACKOFF_MS
        /\ backoff_ms \in Doublings(INITIAL_BACKOFF_MS) \cup {MAX_BACKOFF_MS}
        /\ attempts > 0 => waited <= backoff_ms
        /\ FitsU64(FromInt(backoff_ms * 2))

C26_Witness ==
    /\ wsPc = "connect"
    /\ waited = 25600
    /\ backoff_ms = 30000
    /\ attempts = 9

(***************************************************************************)
(* Claims about MessageWithStatus::status and the memory units.            *)
(***************************************************************************)
\* C18: status() maps each of the six variants of MessageWithStatus to the
\* MessageStatus value of the same name, and MessageStatus has that value.
C18_StatusTotalProjection ==
    op = "status" =>
        /\ input.variant \in MessageWithStatusVariants
        /\ out.tag = "MessageStatus"
        /\ out.val = input.variant
        /\ out.val \in MessageStatusValues

\* The byte value of the source, its floor quotient by the size of the
\* target unit and the remainder.
ByteValue == MulPow(input.units, input.S.factor, input.S.power)
TimesTarget(q) == MulPow(q, input.T.factor, input.T.power)
TargetSize == BYTES_PER_UNIT(input.T)
FloorQuotient == DivPow(ByteValue, input.T.factor, input.T.power).q
Remainder == DivPow(ByteValue, input.T.factor, input.T.power).r

\* q is floor(b / d) and r is b - q * d.
IsFloorDivision(b, q, r) ==
    /\ 0 <= r /\ r < TargetSize
    /\ AddSmall(TimesTarget(q), r) = b

IsEven(q) == q = <<>> \/ q[1] % 2 = 0

\* C20: for a source whose byte value b fits in a u64 and a target of size
\* d, to_rounded gives floor(b/d) for Floor, ceil(b/d) for Ceil and, for
\* Nearest, the nearest integer with a tie going to the even one; and
\* Ceil >= Nearest >= Floor, with Ceil at most Floor + 1.
C20_RoundingModes ==
    (op = "to_rounded" /\ FitsU64(ByteValue)) =>
        LET f == FloorQuotient
            r == Remainder
            up == AddSmall(f, 1)
            expected ==
                CASE input.mode = "Floor" -> f
                  [] input.mode = "Ceil" -> IF r = 0 THEN f ELSE up
                  [] input.mode = "Nearest" ->
                        IF 2 * r < TargetSize THEN f
                        ELSE IF 2 * r > TargetSize THEN up
                        ELSE IF IsEven(f) THEN f ELSE up
            floor == ToRounded(input.units, input.S, input.T, "Floor")
            ceil == ToRounded(input.units, input.S, input.T, "Ceil")
            nearest == ToRounded(input.units, input.S, input.T, "Nearest")
        IN  /\ IsFloorDivision(ByteValue, f, r)
            /\ out = MemOk(expected)
            /\ floor.tag = "Ok" /\ ceil.tag = "Ok" /\ nearest.tag = "Ok"
            /\ ~Less(ceil.val, nearest.val)
            /\ ~Less(nearest.val, floor.val)
            /\ ~Less(AddSmall(floor.val, 1), ceil.val)

C20_Witness ==
    /\ op = "to_rounded"
    /\ input.mode = "Nearest"
    /\ FitsU64(ByteValue)
    /\ 2 * Remainder = TargetSize
    /\ FloorQuotient = FromInt(2)
    /\ out = MemOk(FromInt(2))

\* C21: to_bytes and to_rounded give Overflow exactly when the byte value
\* of the source does not fit in a u64; to_exact gives None only for a byte
\* value that fits and is no multiple of the target size; and T::try_from
\* of a byte count gives Overflow only when 64-bit arithmetic overflows,
\* which a division never does.
C21_OverflowAndInexactDistinct ==
    /\ op \in {"to_bytes", "to_rounded"} =>
           (out = MemOverflow <=> ~FitsU64(ByteValue))
    /\ op = "to_exact" =>
           (out = MemNone => (FitsU64(ByteValue) /\ Remainder # 0))
    /\ op = "try_from_bytes" => out # MemOverflow

\* The exact ceiling of gb * 10^9 / 2^20.
ExactMebibytes(gb) ==
    LET qr == DivPow(MulPow(gb, 1000, 3), 1024, 2)
    IN  AddSmall(qr.q, IF qr.r > 0 THEN 1 ELSE 0)

\* C22: gigabyte_to_mebibyte(gb) is the ceiling of gb * 10^9 / 2^20 and
\* result * 2^20 >= gb * 10^9, for every u64 gb; gigabyte_to_mebibyte(20)
\* is 19074.
C22_CeilingNeverUnderAllocates ==
    /\ GigabyteToMebibyte(FromInt(20)) = FromInt(19074)
    /\ op = "gigabyte_to_mebibyte" =>
           /\ out.val = ExactMebibytes(input.units)
           /\ ~Less(MulPow(out.val, 1024, 2), MulPow(input.units, 1000, 3))

\* The whole seconds floor(t) and the remainder t - floor(t), as the
\* numerator of a fraction of 2^bits, of a finite Timestamp.
FloorOf(t) == IF ~t.neg THEN t.whole ELSE IF t.num = 0 THEN -t.whole ELSE -t.whole - 1
RemainderOf(t) ==
    IF ~t.neg \/ t.num = 0 THEN t.num
    ELSE (((2^(t.bits - 1) - 1) * 2 + 1) - t.num) + 1

\* The remainder times 10^9, rounded to the nearest integer.
RoundedNanos(t) ==
    LET s == RoundShift(MulPow(FromInt(RemainderOf(t)), 1000, 3), t.bits)
    IN  ToInt(s.q) + s.half

\* C23: to_datetime of a finite t in range is the instant of floor(t)
\* seconds and min(round((t - floor(t)) * 10^9), 999999999) nanoseconds,
\* negative non-integers included; a value outside the range of the
\* datetime gives OutOfBounds.
C23_FloorPlusRemainder ==
    op = "to_datetime" =>
        /\ input.class = "finite" =>
               out = [tag |-> "Ok", secs |-> FloorOf(input),
                      nsecs |-> Min(RoundedNanos(input), MAX_NSECS)]
        /\ input.class \in {"inf", "huge", "beyond"} => out.tag = "OutOfBounds"

(***************************************************************************)
(* Claims about what verification depends on.                              *)
(***************************************************************************)
\* The payloads that differ from p in the content, the type, the sender,
\* the signature or the time, and in nothing else.
OtherEnvelopes(p) ==
    { [p EXCEPT !.type = J("str", MessageTypeTag(t)), !.content = Template({t}),
                !.sender = sender, !.signature = signature, !.time = time] :
        t \in {"Post", "Store", "Aggregate"},
        sender \in {"0xS", "0xT"},
        signature \in {"0xsig", "0xgis"},
        time \in {J("num", "2.5"), J("num", "1.5")} }

\* C27: an Inline message and every message decoded from a payload with
\* the same item_type, item_content and item_hash and another content,
\* type, sender, signature or time get the same result of verify_item_hash.
C27_InlineDependsOnItemContentOnly ==
    (pc = "verified" /\ Source = "Inline") =>
        \A p \in OtherEnvelopes(payload) :
            LET other == MessageDeserialize(p)
            IN  other.ok =>
                    /\ other.msg.content_source = Msg.content_source
                    /\ other.msg.item_hash = Msg.item_hash
                    /\ VerifyItemHash(other.msg) = verdict

C27_Witness ==
    /\ pc = "verified"
    /\ Source = "Inline"
    /\ verdict.result = "Ok"
    /\ \E p \in OtherEnvelopes(payload) :
          LET other == MessageDeserialize(p)
          IN  /\ other.ok
              /\ other.msg.message_type # Msg.message_type
              /\ other.msg.content.fields # Msg.content.fields
              /\ other.msg.sender # Msg.sender
              /\ VerifyItemHash(other.msg).result = "Ok"

\* C28: the computed hash is Native for Inline and Storage and a CID V0 for
\* Ipfs, so verification does not succeed for an Inline or Storage message
\* whose item_hash is a CID, nor for an Ipfs message whose item_hash is a
\* native hash or a CID V1, even when the digests are the same.
C28_VariantFixedBySource ==
    pc = "verified" =>
        LET c == ComputeItemHash(Msg)
            claimed == Msg.item_hash
        IN  /\ (c.ok /\ Source \in {"Inline", "Storage"}) => c.hash.variant = "Native"
            /\ (c.ok /\ Source = "Ipfs") =>
                   (c.hash.variant = "Ipfs" /\ c.hash.version = "V0")
            /\ (Source \in {"Inline", "Storage"} /\ claimed.variant = "Ipfs")
                   => verdict.result # "Ok"
            /\ (Source = "Ipfs" /\ (claimed.variant = "Native" \/ claimed.version = "V1"))
                   => verdict.result # "Ok"

C28_Witness ==
    /\ pc = "verified"
    /\ Source = "Ipfs"
    /\ Msg.item_hash.variant = "Native"
    /\ Msg.item_hash.digest = Sha256(MessageContentToJson(Msg.content).text)
    /\ verdict.result = "ItemHashVerificationFailed"
    /\ verdict.actual.version = "V0"

(***************************************************************************)
(* Claims about CidV0 and the message round trip.                          *)
(***************************************************************************)
IsV0Shape(value) == StartsWith(value, <<"Q", "m">>) /\ Len(value) = 46

\* C29: a CidV0 that CidV0::new, CidV0::try_from, Cid::try_from or the
\* deserialization of a CidV0, a Cid or an ItemHash gives starts with "Qm"
\* and has length 46; CidV0::new gives InvalidV0 for every other string;
\* and Cid::from of a CidV0 gives a Cid V0 of the same string.
C29_CidV0Invariant ==
    /\ (op \in {"CidV0", "Cid", "CidDeserialized", "CidFromString",
                 "CidV0FromString", "CidFromCidV0"} /\ out.tag = "V0")
           => IsV0Shape(out.val)
    /\ (op \in {"ItemHash", "Reparse"} /\ out.tag = "Ipfs" /\ out.val.tag = "V0")
           => IsV0Shape(out.val.val)
    /\ op = "CidV0" =>
           /\ out.tag = IF IsV0Shape(input) THEN "V0" ELSE "InvalidV0"
           /\ out.val = input
    /\ op = "CidFromCidV0" => out.tag = "V0"

\* C30: the serialization of a decoded message succeeds, decodes, and
\* decodes to the same message, for every content source, with and
\* without a channel and with and without confirmations.
C30_MessageRoundTrip ==
    pc = "serialized" =>
        /\ wire.ok
        /\ MessageDeserialize(ParseSerialized(wire.members)).ok
        /\ MessageDeserialize(ParseSerialized(wire.members)).msg = Msg

====
